---- MODULE Spec2Model ----
(***************************************************************************)
(* Banquet notation parser (package banquet, banquet.go) and the SQLite    *)
(* composer (package sqlite).  Strings are TLA+ strings; Go's 0-based      *)
(* half-open slices s[i:j] are written Slice(s, i, j).                      *)
(*                                                                         *)
(* The state is one parse in progress: the URL text given to the parser    *)
(* (rawurl), the decomposed URL (u.Path, u.RawQuery), the Banquet record b *)
(* being filled in by ParseBanquet, the position pc inside the parser, and *)
(* the SQL text Compose renders.  pc = "error" is the return of (nil, err).*)
(*                                                                         *)
(* The package-level flag is verbose; stored is the set of values that     *)
(* have been stored in it, which are the values a read that no             *)
(* synchronisation orders after the stores may observe; logged counts the  *)
(* lines written by log.Printf.                                            *)
(***************************************************************************)
EXTENDS Integers, Sequences, FiniteSets, TLC

VARIABLES rawurl, path, query, pc, b, sql, verbose, stored, logged

vars == <<rawurl, path, query, pc, b, sql, verbose, stored, logged>>

(***************************************************************************)
(* Package strings / strconv / net/url helpers, as the parser uses them.   *)
(***************************************************************************)

\* s[i:j] of Go
Slice(s, i, j) == SubSeq(s, i + 1, j)

\* s[i] of Go, as a one-character string
CharAt(s, i) == SubSeq(s, i + 1, i + 1)

HasPrefix(s, p) == Len(s) >= Len(p) /\ SubSeq(s, 1, Len(p)) = p

HasSuffix(s, p) == Len(s) >= Len(p) /\ SubSeq(s, Len(s) - Len(p) + 1, Len(s)) = p

\* strings.Index: 0-based position of the first occurrence of sub, or -1
Index(s, sub) ==
    LET hits == {i \in 0..(Len(s) - Len(sub)) : Slice(s, i, i + Len(sub)) = sub}
    IN  IF hits = {} THEN -1 ELSE CHOOSE i \in hits : \A j \in hits : i <= j

\* strings.LastIndex
LastIndex(s, sub) ==
    LET hits == {i \in 0..(Len(s) - Len(sub)) : Slice(s, i, i + Len(sub)) = sub}
    IN  IF hits = {} THEN -1 ELSE CHOOSE i \in hits : \A j \in hits : i >= j

Contains(s, sub) == Index(s, sub) # -1

TrimPrefix(s, p) == IF HasPrefix(s, p) THEN Slice(s, Len(p), Len(s)) ELSE s

\* strings.Split with a non-empty separator: Split("", sep) is <<"">>
RECURSIVE Split(_, _)
Split(s, sep) ==
    LET i == Index(s, sep)
    IN  IF i = -1 THEN <<s>>
        ELSE <<Slice(s, 0, i)>> \o Split(Slice(s, i + Len(sep), Len(s)), sep)

\* strings.SplitN with n > 0: at most n parts, the last one the unsplit rest
RECURSIVE SplitN(_, _, _)
SplitN(s, sep, n) ==
    LET i == Index(s, sep)
    IN  IF n <= 1 \/ i = -1 THEN <<s>>
        ELSE <<Slice(s, 0, i)>> \o SplitN(Slice(s, i + Len(sep), Len(s)), sep, n - 1)

\* strings.Join
RECURSIVE Join(_, _)
Join(parts, sep) ==
    IF Len(parts) = 0 THEN ""
    ELSE IF Len(parts) = 1 THEN parts[1]
    ELSE parts[1] \o sep \o Join(Tail(parts), sep)

\* unicode.IsSpace on the characters of the model's alphabet
IsSpace(c) == c \in {" ", "\t", "\n", "\r"}

RECURSIVE TrimLeftSpace(_)
TrimLeftSpace(s) ==
    IF Len(s) > 0 /\ IsSpace(CharAt(s, 0)) THEN TrimLeftSpace(Tail(s)) ELSE s

RECURSIVE TrimRightSpace(_)
TrimRightSpace(s) ==
    IF Len(s) > 0 /\ IsSpace(CharAt(s, Len(s) - 1))
    THEN TrimRightSpace(Slice(s, 0, Len(s) - 1)) ELSE s

\* strings.TrimSpace
TrimSpace(s) == TrimRightSpace(TrimLeftSpace(s))

\* strings.Trim(s, c) for a one-character cutset
RECURSIVE TrimChar(_, _)
TrimChar(s, c) ==
    IF Len(s) > 0 /\ CharAt(s, 0) = c THEN TrimChar(Tail(s), c)
    ELSE IF Len(s) > 0 /\ CharAt(s, Len(s) - 1) = c
         THEN TrimChar(Slice(s, 0, Len(s) - 1), c)
    ELSE s

\* strings.ReplaceAll for a one-character old string
RECURSIVE ReplaceAll(_, _, _)
ReplaceAll(s, old, new) ==
    IF Len(s) = 0 THEN ""
    ELSE (IF CharAt(s, 0) = old THEN new ELSE CharAt(s, 0))
         \o ReplaceAll(Tail(s), old, new)

\* strings.ToLower on the letters of the model's alphabet
LowerOf(c) ==
    LET up == "ABCDEFGHIJKLMNOPQRSTUVWXYZ"
        lo == "abcdefghijklmnopqrstuvwxyz"
        i  == Index(up, c)
    IN  IF Len(c) = 1 /\ i # -1 THEN CharAt(lo, i) ELSE c

RECURSIVE ToLower(_)
ToLower(s) == IF Len(s) = 0 THEN "" ELSE LowerOf(CharAt(s, 0)) \o ToLower(Tail(s))

(***************************************************************************)
(* strconv.  Go's int is a two's complement machine word.  The model keeps *)
(* the wrap-around of that word at a reduced width of IntBits bits: Atoi   *)
(* rejects what does not fit the word, and a difference wraps.             *)
(***************************************************************************)
IntBits == 5

RECURSIVE Pow2(_)
Pow2(n) == IF n = 0 THEN 1 ELSE 2 * Pow2(n - 1)

MaxInt == Pow2(IntBits - 1) - 1

MinInt == 0 - Pow2(IntBits - 1)

\* the machine word holding the mathematical integer x
WrapInt(x) == ((x - MinInt) % Pow2(IntBits)) + MinInt

IsDigit(c) == Len(c) = 1 /\ Contains("0123456789", c)

RECURSIVE AllDigits(_)
AllDigits(s) == Len(s) = 0 \/ (IsDigit(CharAt(s, 0)) /\ AllDigits(Tail(s)))

RECURSIVE DigitsVal(_)
DigitsVal(s) ==
    IF Len(s) = 0 THEN 0
    ELSE 10 * DigitsVal(Slice(s, 0, Len(s) - 1))
         + Index("0123456789", CharAt(s, Len(s) - 1))

\* Atoi with its error dropped: text that is no integer of the word reads as 0
AtoiOrZero(s) ==
    LET signed == Len(s) > 0 /\ CharAt(s, 0) \in {"+", "-"}
        digits == IF signed THEN Tail(s) ELSE s
        mag    == DigitsVal(digits)
        val    == IF signed /\ CharAt(s, 0) = "-" THEN 0 - mag ELSE mag
    IN  IF Len(digits) = 0 \/ ~AllDigits(digits) \/ val < MinInt \/ val > MaxInt
        THEN [ok |-> TRUE, val |-> 0]
        ELSE [ok |-> TRUE, val |-> val]

\* strconv.Atoi: [ok |-> no error, val |-> the integer]
Atoi(s) ==
    LET signed == Len(s) > 0 /\ CharAt(s, 0) \in {"+", "-"}
        digits == IF signed THEN Tail(s) ELSE s
        mag    == DigitsVal(digits)
        val    == IF signed /\ CharAt(s, 0) = "-" THEN 0 - mag ELSE mag
    IN  IF Len(digits) = 0 \/ ~AllDigits(digits) THEN [ok |-> FALSE, val |-> 0]
        ELSE IF val < MinInt \/ val > MaxInt THEN [ok |-> FALSE, val |-> 0]
        ELSE [ok |-> TRUE, val |-> val]

RECURSIVE NatToStr(_)
NatToStr(n) ==
    IF n < 10 THEN CharAt("0123456789", n)
    ELSE NatToStr(n \div 10) \o CharAt("0123456789", n % 10)

\* strconv.Itoa
Itoa(n) == IF n < 0 THEN "-" \o NatToStr(0 - n) ELSE NatToStr(n)

\* strconv.ParseFloat(s, 64) returning no error: the decimal literals and the
\* special values.  (Hexadecimal mantissas, digit-separating underscores and
\* exponents beyond the float64 range are not in the alphabet Init draws.)
IsSpecialFloat(s) ==
    ToLower(s) \in {"inf", "+inf", "-inf", "infinity", "+infinity", "-infinity", "nan"}

IsDecimalMantissa(m) ==
    LET dot == Index(m, ".")
        ip  == IF dot = -1 THEN m ELSE Slice(m, 0, dot)
        fp  == IF dot = -1 THEN "" ELSE Slice(m, dot + 1, Len(m))
    IN  AllDigits(ip) /\ AllDigits(fp) /\ Len(ip) + Len(fp) > 0

IsDecimalExponent(e) ==
    LET d == IF Len(e) > 0 /\ CharAt(e, 0) \in {"+", "-"} THEN Tail(e) ELSE e
    IN  Len(d) > 0 /\ AllDigits(d)

IsDecimalFloat(s) ==
    LET u  == IF Len(s) > 0 /\ CharAt(s, 0) \in {"+", "-"} THEN Tail(s) ELSE s
        l  == ToLower(u)
        ei == Index(l, "e")
    IN  IF ei = -1 THEN IsDecimalMantissa(u)
        ELSE IsDecimalMantissa(Slice(u, 0, ei))
             /\ IsDecimalExponent(Slice(u, ei + 1, Len(u)))

ParseFloatOk(s) == IsSpecialFloat(s) \/ IsDecimalFloat(s)

(***************************************************************************)
(* net/url: QueryUnescape and the Values of ParseQuery.                    *)
(***************************************************************************)
IsHex(c) == Len(c) = 1 /\ Contains("0123456789abcdefABCDEF", c)

HexVal(c) == Index("0123456789abcdef", LowerOf(c))

\* the character of a decoded byte; the model's alphabet is printable ASCII
\* (the grave accent, byte 96, cannot be written in a TLA+ string)
CharOfByte(n) ==
    LET low  == " !\"#$%&'()*+,-./0123456789:;<=>?@ABCDEFGHIJKLMNOPQRSTUVWXYZ[\\]^_"
        high == "abcdefghijklmnopqrstuvwxyz{|}~"
    IN  IF n >= 32 /\ n <= 95 THEN CharAt(low, n - 32)
        ELSE IF n >= 97 /\ n <= 126 THEN CharAt(high, n - 97)
        ELSE "?"

\* url.QueryUnescape fails on a '%' not followed by two hex digits
RECURSIVE BadEscape(_)
BadEscape(s) ==
    IF Len(s) = 0 THEN FALSE
    ELSE IF CharAt(s, 0) = "%"
         THEN IF Len(s) >= 3 /\ IsHex(CharAt(s, 1)) /\ IsHex(CharAt(s, 2))
              THEN BadEscape(Slice(s, 3, Len(s)))
              ELSE TRUE
    ELSE BadEscape(Tail(s))

RECURSIVE Unescaped(_)
Unescaped(s) ==
    IF Len(s) = 0 THEN ""
    ELSE IF CharAt(s, 0) = "%"
         THEN CharOfByte(16 * HexVal(CharAt(s, 1)) + HexVal(CharAt(s, 2)))
              \o Unescaped(Slice(s, 3, Len(s)))
    ELSE IF CharAt(s, 0) = "+" THEN " " \o Unescaped(Tail(s))
    ELSE CharAt(s, 0) \o Unescaped(Tail(s))

\* url.QueryUnescape: [err |-> an error was returned, val |-> the decoded text]
QueryUnescape(s) ==
    IF BadEscape(s) THEN [err |-> TRUE, val |-> ""]
    ELSE [err |-> FALSE, val |-> Unescaped(s)]

\* url.ParseQuery(query).Get(key): the first value of key among the
\* well-formed parameters; a parameter holding ';', an empty one, and one
\* whose key or value does not unescape are skipped (the error is dropped).
RECURSIVE FirstValue(_, _)
FirstValue(params, key) ==
    IF Len(params) = 0 THEN ""
    ELSE LET p  == params[1]
             kv == SplitN(p, "=", 2)
             k  == QueryUnescape(kv[1])
             v  == QueryUnescape(IF Len(kv) = 2 THEN kv[2] ELSE "")
         IN  IF Contains(p, ";") \/ p = "" \/ k.err \/ v.err \/ k.val # key
             THEN FirstValue(Tail(params), key)
             ELSE v.val

QueryGet(q, key) == FirstValue(Split(q, "&"), key)

IsLetter(c) ==
    Len(c) = 1 /\ Contains("abcdefghijklmnopqrstuvwxyzABCDEFGHIJKLMNOPQRSTUVWXYZ", c)

\* url.getScheme: the text before the first ':' when it is letters, digits,
\* '+', '-', '.' after a leading letter; err when the URL begins with ':'
RECURSIVE GetSchemeFrom(_, _)
GetSchemeFrom(rawURL, i) ==
    LET none == [err |-> FALSE, scheme |-> "", rest |-> rawURL]
        c    == CharAt(rawURL, i)
    IN  IF i >= Len(rawURL) THEN none
        ELSE IF IsLetter(c) THEN GetSchemeFrom(rawURL, i + 1)
        ELSE IF IsDigit(c) \/ c \in {"+", "-", "."}
             THEN IF i = 0 THEN none ELSE GetSchemeFrom(rawURL, i + 1)
        ELSE IF c = ":"
             THEN IF i = 0 THEN [err |-> TRUE, scheme |-> "", rest |-> ""]
                  ELSE [err |-> FALSE, scheme |-> Slice(rawURL, 0, i),
                        rest |-> Slice(rawURL, i + 1, Len(rawURL))]
        ELSE none

getScheme(rawURL) == GetSchemeFrom(rawURL, 0)

\* unescape in path mode: %XX decoded, '+' kept
RECURSIVE UnescapedPath(_)
UnescapedPath(s) ==
    IF Len(s) = 0 THEN ""
    ELSE IF CharAt(s, 0) = "%"
         THEN CharOfByte(16 * HexVal(CharAt(s, 1)) + HexVal(CharAt(s, 2)))
              \o UnescapedPath(Slice(s, 3, Len(s)))
    ELSE CharAt(s, 0) \o UnescapedPath(Tail(s))

\* validOptionalPort: "" or ':' followed by digits
validOptionalPort(port) ==
    port = "" \/ (CharAt(port, 0) = ":" /\ AllDigits(Tail(port)))

\* the bytes unescape lets stand in a host (shouldEscape in host mode)
IsHostChar(c) ==
    IsLetter(c) \/ IsDigit(c) \/ (Len(c) = 1 /\ Contains("!$&'()*+,;=:[]<>\"-_.~", c))

\* parseHost returning no error: a bracketed literal needs its ']', what
\* follows the host must be a port, and every byte must be a host byte.
\* (Percent escapes in a host are outside the alphabet Init draws; the model
\* rejects them all, as parseHost does for escapes of ASCII bytes.)
HostOk(host) ==
    LET i == LastIndex(host, ":")
        j == LastIndex(host, "]")
    IN  /\ IF HasPrefix(host, "[")
           THEN j # -1 /\ validOptionalPort(Slice(host, j + 1, Len(host)))
           ELSE i # -1 => validOptionalPort(Slice(host, i, Len(host)))
        /\ \A k \in 0..(Len(host) - 1) : IsHostChar(CharAt(host, k))

\* validUserinfo, and the user and password unescape
UserinfoOk(userinfo) ==
    /\ \A k \in 0..(Len(userinfo) - 1) :
           LET c == CharAt(userinfo, k)
           IN  IsLetter(c) \/ IsDigit(c) \/ Contains("-._:~!$&'()*+,;=%@", c)
    /\ ~BadEscape(userinfo)

\* parseAuthority returning no error
AuthorityOk(authority) ==
    LET i == LastIndex(authority, "@")
    IN  IF i < 0 THEN HostOk(authority)
        ELSE HostOk(Slice(authority, i + 1, Len(authority)))
             /\ UserinfoOk(Slice(authority, 0, i))

\* url.parse on the text before the fragment.  wire is the path as written,
\* path its decoding (u.Path), rawQuery the text after the first '?'.
parse(rawURL) ==
    LET failed  == [err |-> TRUE, scheme |-> "", opaque |-> "", authority |-> "",
                    wire |-> "", path |-> "", rawQuery |-> ""]
        s       == getScheme(rawURL)
        force   == HasSuffix(s.rest, "?") /\ Len(Split(s.rest, "?")) = 2
        q       == Index(s.rest, "?")
        rest    == IF force THEN Slice(s.rest, 0, Len(s.rest) - 1)
                   ELSE IF q = -1 THEN s.rest ELSE Slice(s.rest, 0, q)
        rawQ    == IF force \/ q = -1 THEN "" ELSE Slice(s.rest, q + 1, Len(s.rest))
        hasAuth == HasPrefix(rest, "//") /\ (s.scheme # "" \/ ~HasPrefix(rest, "///"))
        after   == Slice(rest, 2, Len(rest))
        slash   == Index(after, "/")
        auth    == IF slash = -1 THEN after ELSE Slice(after, 0, slash)
        p       == IF ~hasAuth THEN rest
                   ELSE IF slash = -1 THEN "" ELSE Slice(after, slash, Len(after))
    IN  IF rawURL = "*"
        THEN [err |-> FALSE, scheme |-> "", opaque |-> "", authority |-> "",
              wire |-> "*", path |-> "*", rawQuery |-> ""]
        ELSE IF s.err THEN failed
        ELSE IF ~HasPrefix(rest, "/") /\ s.scheme # ""
             THEN [err |-> FALSE, scheme |-> ToLower(s.scheme), opaque |-> rest,
                   authority |-> "", wire |-> "", path |-> "", rawQuery |-> rawQ]
        ELSE IF ~HasPrefix(rest, "/") /\ Contains(Split(rest, "/")[1], ":") THEN failed
        ELSE IF hasAuth /\ ~AuthorityOk(auth) THEN failed
        ELSE IF BadEscape(p) THEN failed
        ELSE [err |-> FALSE, scheme |-> ToLower(s.scheme), opaque |-> "",
              authority |-> IF hasAuth THEN auth ELSE "",
              wire |-> p, path |-> UnescapedPath(p), rawQuery |-> rawQ]

\* url.Parse: the fragment is cut off at the first '#' and must unescape
UrlParse(rawURL) ==
    LET h    == Index(rawURL, "#")
        u    == IF h = -1 THEN rawURL ELSE Slice(rawURL, 0, h)
        frag == IF h = -1 THEN "" ELSE Slice(rawURL, h + 1, Len(rawURL))
    IN  IF BadEscape(frag) THEN [parse(u) EXCEPT !.err = TRUE] ELSE parse(u)

\* the byte of a character of the model's alphabet (CharOfByte's inverse)
ByteOfChar(c) ==
    LET low  == " !\"#$%&'()*+,-./0123456789:;<=>?@ABCDEFGHIJKLMNOPQRSTUVWXYZ[\\]^_"
        high == "abcdefghijklmnopqrstuvwxyz{|}~"
    IN  IF Contains(low, c) THEN 32 + Index(low, c) ELSE 97 + Index(high, c)

\* shouldEscape in path mode: letters, digits, "-_.~" and "$&+,/:;=@" stand
shouldEscapePath(c) ==
    ~(IsLetter(c) \/ IsDigit(c) \/ Contains("-_.~$&+,/:;=@", c))

\* validEncoded in path mode: sub-delims, ':', '@', '[', ']' and '%' are
\* accepted as written, any other byte must be one escape would let stand
validEncodedPath(s) ==
    \A k \in 0..(Len(s) - 1) :
        LET c == CharAt(s, k)
        IN  Contains("!$&'()*+,;=:@[]%", c) \/ ~shouldEscapePath(c)

\* escape in path mode: %XX in upper-case hex for every byte shouldEscape names
RECURSIVE escapePath(_)
escapePath(s) ==
    IF Len(s) = 0 THEN ""
    ELSE LET c == CharAt(s, 0)
             n == ByteOfChar(c)
         IN  (IF shouldEscapePath(c)
              THEN "%" \o CharAt("0123456789ABCDEF", n \div 16)
                       \o CharAt("0123456789ABCDEF", n % 16)
              ELSE c) \o escapePath(Tail(s))

\* (*URL).EscapedPath: the path as written when that is a valid encoding
\* (setPath keeps it in RawPath, or it equals escape(Path)), else escape(Path)
EscapedPath(u) ==
    IF validEncodedPath(u.wire) THEN u.wire ELSE escapePath(u.path)

(***************************************************************************)
(* banquet.go                                                              *)
(***************************************************************************)
ASC == "+"

DESC == "-"

\* CleanUrl without its case for the root path
CleanUrlKeepRoot(url) ==
    LET r   == TrimPrefix(url, "/")
        idx == Index(r, ":/")
    IN  IF idx # -1 /\ ~HasPrefix(Slice(r, idx, Len(r)), "://")
        THEN Slice(r, 0, idx) \o "://" \o Slice(r, idx + 2, Len(r))
        ELSE r

\* CleanUrl: "/" becomes ".", one leading '/' goes, and the first ":/" that
\* is not "://" becomes "://"
CleanUrl(url) ==
    LET r   == TrimPrefix(url, "/")
        idx == Index(r, ":/")
    IN  IF url = "/" THEN "."
        ELSE IF idx # -1 /\ ~HasPrefix(Slice(r, idx, Len(r)), "://")
             THEN Slice(r, 0, idx) \o "://" \o Slice(r, idx + 2, Len(r))
        ELSE r

\* IsDataSetFile without the test.html exception
IsDataSetFileAnyHtml(part) ==
    \/ HasSuffix(part, ".zip")
    \/ HasSuffix(part, ".csv")
    \/ HasSuffix(part, ".sqlite")
    \/ HasSuffix(part, ".db")
    \/ HasSuffix(part, ".xlsx")
    \/ HasSuffix(part, ".json")
    \/ HasSuffix(part, ".html")
    \/ HasSuffix(part, ".txt")

\* the extension test of parseDataSetColumnPath's loop
IsDataSetFile(part) ==
    \/ HasSuffix(part, ".zip")
    \/ HasSuffix(part, ".csv")
    \/ HasSuffix(part, ".sqlite")
    \/ HasSuffix(part, ".db")
    \/ HasSuffix(part, ".xlsx")
    \/ HasSuffix(part, ".json")
    \/ (HasSuffix(part, ".html") /\ part # "test.html")
    \/ HasSuffix(part, ".txt")

\* ExplicitTiers splitting on every semicolon
ExplicitTiersSplitAll(rawpath) ==
    LET parts == Split(rawpath, ";")
    IN  [datasetPath |-> parts[1],
         table       |-> IF Len(parts) > 1 THEN parts[2] ELSE "",
         columnPath  |-> IF Len(parts) > 2 THEN parts[3] ELSE ""]

\* the semicolon branch of parseDataSetColumnPath
ExplicitTiers(rawpath) ==
    LET parts == SplitN(rawpath, ";", 3)
    IN  [datasetPath |-> parts[1],
         table       |-> IF Len(parts) > 1 THEN parts[2] ELSE "",
         columnPath  |-> IF Len(parts) > 2 THEN parts[3] ELSE ""]

\* the file extension branch of parseDataSetColumnPath
HeuristicTiers(rawpath) ==
    LET parts == Split(rawpath, "/")
        hits  == {i \in 1..Len(parts) : IsDataSetFile(parts[i])}
    IN  IF hits = {}
        THEN [datasetPath |-> rawpath, table |-> "", columnPath |-> ""]
        ELSE LET i == CHOOSE k \in hits : \A j \in hits : k <= j
             IN  [datasetPath |-> Join(SubSeq(parts, 1, i), "/"),
                  table       |-> "",
                  columnPath  |-> IF i < Len(parts)
                                  THEN Join(SubSeq(parts, i + 1, Len(parts)), "/")
                                  ELSE ""]

parseDataSetColumnPath(rawpath) ==
    IF Contains(rawpath, ";") THEN ExplicitTiers(rawpath) ELSE HeuristicTiers(rawpath)

\* the indicator test of getSegments' loop
IsClearSegment(part) ==
    \/ Contains(part, ",")
    \/ HasPrefix(part, ASC)
    \/ HasPrefix(part, DESC)
    \/ Contains(part, "!=")
    \/ (HasPrefix(part, "[") /\ Contains(part, ":"))

\* getSegments returning every segment when none shows an indicator
getSegmentsKeepsAll(columnPath) ==
    LET parts == Split(columnPath, "/")
        hits  == {i \in 1..Len(parts) : IsClearSegment(parts[i])}
    IN  IF Len(parts) = 1 /\ parts[1] = "" THEN <<>>
        ELSE IF hits # {}
             THEN SubSeq(parts, CHOOSE k \in hits : \A j \in hits : k <= j, Len(parts))
        ELSE parts

getSegments(columnPath) ==
    LET parts == Split(columnPath, "/")
        hits  == {i \in 1..Len(parts) : IsClearSegment(parts[i])}
    IN  IF Len(parts) = 1 /\ parts[1] = "" THEN <<>>
        ELSE IF hits # {}
             THEN SubSeq(parts, CHOOSE k \in hits : \A j \in hits : k <= j, Len(parts))
        ELSE SubSeq(parts, Len(parts), Len(parts))

\* SelectToken without the sort prefix test
SelectTokenKeepsSort(col) ==
    LET idx     == Index(col, "[")
        cut     == IF idx # -1 THEN Slice(col, 0, idx) ELSE col
        cleaned == TrimSpace(cut)
    IN  IF Contains(col, "!=") THEN <<>>
        ELSE IF cleaned # "" THEN <<cleaned>>
        ELSE <<>>

\* what one comma-separated token of a segment appends to collected
SelectToken(col) ==
    LET idx     == Index(col, "[")
        cut     == IF idx # -1 THEN Slice(col, 0, idx) ELSE col
        cleaned == TrimSpace(cut)
    IN  IF Contains(col, "!=") THEN <<>>
        ELSE IF HasPrefix(col, ASC) \/ HasPrefix(col, DESC) THEN <<>>
        ELSE IF cleaned # "" THEN <<cleaned>>
        ELSE <<>>

RECURSIVE SelectTokens(_)
SelectTokens(cols) ==
    IF Len(cols) = 0 THEN <<>> ELSE SelectToken(cols[1]) \o SelectTokens(Tail(cols))

\* what one segment appends to collected
SelectSegment(segment) ==
    IF HasPrefix(segment, "[") /\ HasSuffix(segment, "]") /\ Contains(segment, ":")
    THEN <<>>
    ELSE IF segment = "" THEN <<>>
    ELSE SelectTokens(Split(segment, ","))

RECURSIVE SelectSegments(_)
SelectSegments(segments) ==
    IF Len(segments) = 0 THEN <<>>
    ELSE SelectSegment(segments[1]) \o SelectSegments(Tail(segments))

ParseSelect(columnPath) ==
    LET segments  == getSegments(columnPath)
        collected == SelectSegments(segments)
    IN  IF Len(segments) = 0 THEN <<"*">>
        ELSE IF Len(collected) = 0 THEN <<"*">>
        ELSE collected

\* QuoteValue wrapping without doubling the value's quotes
QuoteValueUndoubled(val) ==
    IF ~ParseFloatOk(val) THEN "'" \o val \o "'" ELSE val

\* the literal a filter value is emitted as
QuoteValue(val) ==
    IF ~ParseFloatOk(val) THEN "'" \o ReplaceAll(val, "'", "''") \o "'" ELSE val

\* the condition one "col!=value" token appends to conditions
PathCondition(part) ==
    LET kv      == SplitN(part, "!=", 2)
        col     == TrimSpace(kv[1])
        raw     == TrimSpace(kv[2])
        decoded == QueryUnescape(raw)
        val     == IF ~decoded.err THEN decoded.val ELSE raw
    IN  col \o " != " \o QuoteValue(val)

RECURSIVE ConditionTokens(_)
ConditionTokens(parts) ==
    IF Len(parts) = 0 THEN <<>>
    ELSE (IF Contains(parts[1], "!=") THEN <<PathCondition(parts[1])>> ELSE <<>>)
         \o ConditionTokens(Tail(parts))

RECURSIVE ConditionSegments(_)
ConditionSegments(segments) ==
    IF Len(segments) = 0 THEN <<>>
    ELSE (IF segments[1] = "" THEN <<>> ELSE ConditionTokens(Split(segments[1], ",")))
         \o ConditionSegments(Tail(segments))

\* the conditions slice parsePathConditions builds
pathConditions(columnPath) == ConditionSegments(getSegments(columnPath))

parsePathConditions(columnPath) == Join(pathConditions(columnPath), " AND ")

RECURSIVE FirstWhere(_)
FirstWhere(params) ==
    IF Len(params) = 0 THEN ""
    ELSE IF HasPrefix(params[1], "where=")
         THEN LET val     == TrimPrefix(params[1], "where=")
                  decoded == QueryUnescape(val)
              IN  IF ~decoded.err THEN decoded.val ELSE val
    ELSE FirstWhere(Tail(params))

parseWhere(q) == IF q = "" THEN "" ELSE FirstWhere(Split(q, "&"))

ParseGroupBy(p, q) ==
    LET g     == QueryGet(q, "groupby")
        start == Index(p, "(")
        end   == Index(p, ")")
    IN  IF g # "" THEN g
        ELSE IF Contains(p, "(") /\ Contains(p, ")") /\ start < end
             THEN Slice(p, start + 1, end)
        ELSE ""

\* parseTable without the test for '='
parseTableKeepsEquals(columnPath) ==
    LET parts == Split(TrimChar(columnPath, "/"), "/")
        first == parts[1]
    IN  IF columnPath = "" THEN ""
        ELSE IF parts[1] = "" THEN ""
        ELSE IF \/ Contains(first, ",")
                \/ HasPrefix(first, ASC)
                \/ HasPrefix(first, DESC)
                \/ Contains(first, "!=")
                \/ Contains(first, ">")
                \/ Contains(first, "<")
                \/ (HasPrefix(first, "[") /\ Contains(first, ":"))
             THEN ""
        ELSE first

parseTable(columnPath) ==
    LET parts == Split(TrimChar(columnPath, "/"), "/")
        first == parts[1]
    IN  IF columnPath = "" THEN ""
        ELSE IF parts[1] = "" THEN ""
        ELSE IF \/ Contains(first, ",")
                \/ HasPrefix(first, ASC)
                \/ HasPrefix(first, DESC)
                \/ Contains(first, "!=")
                \/ Contains(first, "=")
                \/ Contains(first, ">")
                \/ Contains(first, "<")
                \/ (HasPrefix(first, "[") /\ Contains(first, ":"))
             THEN ""
        ELSE first

\* parseSlice: [limit |-> ..., offset |-> ...]
parseSlice(pathStr) ==
    LET none     == [limit |-> "", offset |-> ""]
        idx      == LastIndex(pathStr, "[")
        content  == Slice(pathStr, idx + 1, Len(pathStr) - 1)
        parts    == Split(content, ":")
        startStr == TrimSpace(parts[1])
        endStr   == TrimSpace(parts[2])
        s        == Atoi(startStr)
        e        == Atoi(endStr)
        start    == IF startStr # "" THEN s.val ELSE 0
        end      == IF endStr # "" THEN e.val ELSE 0
        hasLimit == endStr # ""
        l        == WrapInt(end - start)
    IN  IF ~HasSuffix(pathStr, "]") THEN none
        ELSE IF idx = -1 THEN none
        ELSE IF Len(parts) # 2 THEN none
        ELSE IF startStr # "" /\ ~s.ok THEN none
        ELSE IF endStr # "" /\ ~e.ok THEN none
        ELSE [limit  |-> IF hasLimit THEN Itoa(IF l < 0 THEN 0 ELSE l) ELSE "",
              offset |-> Itoa(start)]

\* parseLimit preferring the slice to the query parameter
parseLimitSliceFirst(q, p) ==
    LET l == parseSlice(p).limit
    IN  IF l # "" THEN l ELSE QueryGet(q, "limit")

parseLimit(q, p) ==
    LET l == QueryGet(q, "limit")
    IN  IF l # "" THEN l ELSE parseSlice(p).limit

parseOffset(q, p) ==
    LET o == QueryGet(q, "offset")
    IN  IF o # "" THEN o ELSE parseSlice(p).offset

parseHaving(q) == QueryGet(q, "having")

\* the token of parseOrderBy's inner loop, trimmed and cut at its bracket
OrderToken(col) ==
    LET t   == TrimSpace(col)
        idx == Index(t, "[")
    IN  IF idx # -1 THEN Slice(t, 0, idx) ELSE t

RECURSIVE FirstOrder(_)
FirstOrder(cols) ==
    IF Len(cols) = 0 THEN [ob |-> "", dir |-> ""]
    ELSE LET col == OrderToken(cols[1])
         IN  IF HasPrefix(col, ASC) THEN [ob |-> TrimPrefix(col, ASC), dir |-> "ASC"]
             ELSE IF HasPrefix(col, DESC) THEN [ob |-> TrimPrefix(col, DESC), dir |-> "DESC"]
             ELSE FirstOrder(Tail(cols))

\* the tokens parseOrderBy visits: every part of the column path, in order
RECURSIVE AllTokens(_)
AllTokens(parts) ==
    IF Len(parts) = 0 THEN <<>> ELSE Split(parts[1], ",") \o AllTokens(Tail(parts))

\* parseOrderBy reading the column path before the query parameter
parseOrderByPathFirst(columnPath, q) ==
    LET o == FirstOrder(AllTokens(Split(columnPath, "/")))
    IN  IF o.ob # "" THEN o ELSE [ob |-> QueryGet(q, "orderby"), dir |-> ""]

\* parseOrderBy: [ob |-> column, dir |-> direction]
parseOrderBy(columnPath, q) ==
    LET ob == QueryGet(q, "orderby")
    IN  IF ob # "" THEN [ob |-> ob, dir |-> ""]
        ELSE FirstOrder(AllTokens(Split(columnPath, "/")))

(***************************************************************************)
(* package sqlite: Compose                                                 *)
(***************************************************************************)
\* QuoteIdentifier wrapping without doubling the inner quotes
QuoteIdentifierUndoubled(s) ==
    IF s = "" \/ s = "*" THEN s ELSE "\"" \o s \o "\""

QuoteIdentifier(s) ==
    IF s = "" \/ s = "*" THEN s ELSE "\"" \o ReplaceAll(s, "\"", "\"\"") \o "\""

\* InferTable comparing the extension in the case it is written
InferTableCaseSensitive(bq) ==
    IF bq.Table # "" THEN bq.Table
    ELSE IF HasSuffix(bq.DataSetPath, ".sqlite") \/ HasSuffix(bq.DataSetPath, ".db")
         THEN "sqlite_master"
    ELSE "tb0"

InferTable(bq) ==
    LET lower == ToLower(bq.DataSetPath)
    IN  IF bq.Table # "" THEN bq.Table
        ELSE IF HasSuffix(lower, ".sqlite") \/ HasSuffix(lower, ".db") THEN "sqlite_master"
        ELSE "tb0"

RECURSIVE QuotedCols(_)
QuotedCols(cols) ==
    IF Len(cols) = 0 THEN <<>> ELSE <<QuoteIdentifier(cols[1])>> \o QuotedCols(Tail(cols))

\* Compose with OFFSET in front of LIMIT
ComposeOffsetFirst(bq) ==
    LET selectClause == IF Len(bq.Select) > 0 /\ bq.Select[1] # "*"
                        THEN Join(QuotedCols(bq.Select), ", ")
                        ELSE "*"
        table        == IF bq.Table = "" THEN InferTable(bq) ELSE bq.Table
        orderBy      == QuoteIdentifier(bq.OrderBy)
                        \o (IF bq.SortDirection # "" THEN " " \o bq.SortDirection ELSE "")
        parts        == <<"SELECT " \o selectClause>>
                        \o <<"FROM " \o QuoteIdentifier(table)>>
                        \o (IF bq.Where # "" THEN <<"WHERE " \o bq.Where>> ELSE <<>>)
                        \o (IF bq.GroupBy # "" THEN <<"GROUP BY " \o QuoteIdentifier(bq.GroupBy)>> ELSE <<>>)
                        \o (IF bq.Having # "" THEN <<"HAVING " \o bq.Having>> ELSE <<>>)
                        \o (IF bq.OrderBy # "" THEN <<"ORDER BY " \o orderBy>> ELSE <<>>)
                        \o (IF bq.Offset # "" THEN <<"OFFSET " \o bq.Offset>> ELSE <<>>)
                        \o (IF bq.Limit # "" THEN <<"LIMIT " \o bq.Limit>> ELSE <<>>)
    IN  Join(parts, " ")

Compose(bq) ==
    LET selectClause == IF Len(bq.Select) > 0 /\ bq.Select[1] # "*"
                        THEN Join(QuotedCols(bq.Select), ", ")
                        ELSE "*"
        table        == IF bq.Table = "" THEN InferTable(bq) ELSE bq.Table
        orderBy      == QuoteIdentifier(bq.OrderBy)
                        \o (IF bq.SortDirection # "" THEN " " \o bq.SortDirection ELSE "")
        parts        == <<"SELECT " \o selectClause>>
                        \o <<"FROM " \o QuoteIdentifier(table)>>
                        \o (IF bq.Where # "" THEN <<"WHERE " \o bq.Where>> ELSE <<>>)
                        \o (IF bq.GroupBy # "" THEN <<"GROUP BY " \o QuoteIdentifier(bq.GroupBy)>> ELSE <<>>)
                        \o (IF bq.Having # "" THEN <<"HAVING " \o bq.Having>> ELSE <<>>)
                        \o (IF bq.OrderBy # "" THEN <<"ORDER BY " \o orderBy>> ELSE <<>>)
                        \o (IF bq.Limit # "" THEN <<"LIMIT " \o bq.Limit>> ELSE <<>>)
                        \o (IF bq.Offset # "" THEN <<"OFFSET " \o bq.Offset>> ELSE <<>>)
    IN  Join(parts, " ")

(***************************************************************************)
(* The state machine: one ParseBanquet call on the decomposed URL, step by *)
(* step in the order of its statements, then Compose on the record.        *)
(***************************************************************************)

\* the Banquet struct as &Banquet{URL: u, rawurl: rawurl} leaves it
NewBanquet ==
    [DataSetPath |-> "", Table |-> "", ColumnPath |-> "", Select |-> <<>>,
     Where |-> "", GroupBy |-> "", Having |-> "", OrderBy |-> "",
     SortDirection |-> "", Limit |-> "", Offset |-> ""]

\* n statements `if verbose { log.Printf(...) }`: each reads the flag and
\* writes a line when it reads true
Diagnostic(n) ==
    /\ logged' \in {logged + k : k \in (IF TRUE \in stored THEN 0..n ELSE {0})}
    /\ UNCHANGED <<verbose, stored>>

\* no statement reads the flag
Silent == UNCHANGED <<verbose, stored, logged>>

\* AfterParse carrying on whatever url.Parse returned
AfterParseIgnoringError(err) == "tiers"

\* where ParseBanquet goes after url.Parse: it returns (nil, err) on an error
AfterParse(err) == IF err THEN "error" ELSE "tiers"

\* u, err := url.Parse(rawurl): return nil, err, or b := &Banquet{URL: u, ...}
\* whose embedded URL gives b.Path and b.RawQuery
Parsed(u) ==
    /\ pc' = AfterParse(u.err)
    /\ path' = (IF u.err THEN path ELSE u.path)
    /\ query' = (IF u.err THEN query ELSE u.rawQuery)
    /\ Diagnostic(IF u.err THEN 3 ELSE 2)

\* rawurl = CleanUrl(rawurl); u, err := url.Parse(rawurl); b := &Banquet{...}
ParseURL ==
    /\ pc = "url"
    /\ rawurl' = CleanUrl(rawurl)
    /\ Parsed(UrlParse(CleanUrl(rawurl)))
    /\ UNCHANGED <<b, sql>>

\* b.DataSetPath, b.Table, b.ColumnPath = parseDataSetColumnPath(b.Path)
SplitTiers ==
    /\ pc = "tiers"
    /\ LET t == parseDataSetColumnPath(path)
       IN  b' = [b EXCEPT !.DataSetPath = t.datasetPath,
                          !.Table = t.table,
                          !.ColumnPath = t.columnPath]
    /\ pc' = "table"
    /\ Diagnostic(1)
    /\ UNCHANGED <<rawurl, path, query, sql>>

\* if b.Table == "" { b.Table = parseTable(b.ColumnPath) }
ResolveTable ==
    /\ pc = "table"
    /\ b' = [b EXCEPT !.Table = IF b.Table = "" THEN parseTable(b.ColumnPath) ELSE b.Table]
    /\ pc' = "select"
    /\ Diagnostic(IF b.Table = "" THEN 1 ELSE 0)
    /\ UNCHANGED <<rawurl, path, query, sql>>

\* the select list without the "just the Table name" fix
UnnormalizedSelect(sel, table) == sel

\* b.Select = ParseSelect(b.ColumnPath), then the "just the Table name" fix
NormalizedSelect(sel, table) ==
    IF Len(sel) = 1 /\ sel[1] = table THEN <<"*">> ELSE sel

ResolveSelect ==
    /\ pc = "select"
    /\ b' = [b EXCEPT !.Select = NormalizedSelect(ParseSelect(b.ColumnPath), b.Table)]
    /\ pc' = "where"
    /\ Diagnostic(1)
    /\ UNCHANGED <<rawurl, path, query, sql>>

\* CombinedWhere with the path conditions in front
CombinedWherePathFirst(queryWhere, pathWhere) ==
    IF pathWhere # ""
    THEN IF queryWhere # "" THEN pathWhere \o " AND " \o queryWhere ELSE pathWhere
    ELSE queryWhere

\* the combination of the query's where and the path conditions
CombinedWhere(queryWhere, pathWhere) ==
    IF pathWhere # ""
    THEN IF queryWhere # "" THEN queryWhere \o " AND " \o pathWhere ELSE pathWhere
    ELSE queryWhere

CombineWhere ==
    /\ pc = "where"
    /\ b' = [b EXCEPT !.Where = CombinedWhere(parseWhere(query),
                                              parsePathConditions(b.ColumnPath))]
    /\ pc' = "aux"
    /\ Diagnostic(IF CombinedWhere(parseWhere(query), parsePathConditions(b.ColumnPath)) # ""
                  THEN 1 ELSE 0)
    /\ UNCHANGED <<rawurl, path, query, sql>>

\* b.GroupBy, b.Limit, b.Offset, b.Having
ParseAux ==
    /\ pc = "aux"
    /\ b' = [b EXCEPT !.GroupBy = ParseGroupBy(path, query),
                      !.Limit = parseLimit(query, path),
                      !.Offset = parseOffset(query, path),
                      !.Having = parseHaving(query)]
    /\ pc' = "order"
    /\ Silent
    /\ UNCHANGED <<rawurl, path, query, sql>>

\* if ob, dir := parseOrderBy(...); ob != "" { ... }
ResolveOrderBy ==
    /\ pc = "order"
    /\ LET o == parseOrderBy(b.ColumnPath, query)
       IN  b' = [b EXCEPT !.OrderBy = IF o.ob # "" THEN o.ob ELSE b.OrderBy,
                          !.SortDirection = IF o.ob # "" /\ o.dir # ""
                                            THEN o.dir ELSE b.SortDirection]
    /\ pc' = "done"
    /\ Silent
    /\ UNCHANGED <<rawurl, path, query, sql>>

\* query := sqlite.Compose(bq), as the bqsqlite command calls it
ComposeSQL ==
    /\ pc = "done"
    /\ sql' = Compose(b)
    /\ pc' = "composed"
    /\ Silent
    /\ UNCHANGED <<rawurl, path, query, b>>

Next ==
    \/ ParseURL
    \/ SplitTiers
    \/ ResolveTable
    \/ ResolveSelect
    \/ CombineWhere
    \/ ParseAux
    \/ ResolveOrderBy
    \/ ComposeSQL

(***************************************************************************)
(* ParseNested: the envelope is parsed, its escaped path and query are the *)
(* inner notation, and ParseBanquet runs on that.                          *)
(***************************************************************************)

\* InnerOutcome handing the inner error on to the caller
InnerOutcomePropagated(failed) == IF failed THEN "error" ELSE "tiers"

\* b, err := ParseBanquet(inner): on an error ParseNested returns the partial
\* record and nil, otherwise ParseBanquet's stages give the record
InnerOutcome(failed) == IF failed THEN "partial" ELSE "tiers"

\* the text ParseNested hands to url.Parse: one leading '/' trimmed unless
\* the whole text is "/"
NestedRaw(rawURL) == IF rawURL # "/" THEN TrimPrefix(rawURL, "/") ELSE rawURL

\* inner := outer.EscapedPath(), then "?" + outer.RawQuery when there is one
NestedInner(outer) ==
    EscapedPath(outer) \o (IF outer.rawQuery # "" THEN "?" \o outer.rawQuery ELSE "")

\* outer, err := url.Parse(rawURL): return nil, err, or go on with inner
Enveloped(rawURL, outer) ==
    /\ pc' = (IF outer.err THEN "error" ELSE "inner")
    /\ rawurl' = (IF outer.err THEN rawURL ELSE NestedInner(outer))

\* the envelope: trim, url.Parse, extraction of the inner text
ParseEnvelope ==
    /\ pc = "nested"
    /\ Enveloped(NestedRaw(rawurl), UrlParse(NestedRaw(rawurl)))
    /\ Silent
    /\ UNCHANGED <<path, query, b, sql>>

\* b, err := ParseBanquet(inner): CleanUrl and url.Parse of ParseBanquet, then
\* either &Banquet{URL: &url.URL{Path: inner}, rawurl: inner} or its stages
InnerParsed(cleaned, u) ==
    /\ pc' = InnerOutcome(u.err)
    /\ rawurl' = (IF u.err THEN rawurl ELSE cleaned)
    /\ path' = (IF u.err THEN rawurl ELSE u.path)
    /\ query' = (IF u.err THEN "" ELSE u.rawQuery)
    /\ b' = NewBanquet
    /\ Diagnostic(IF u.err THEN 3 ELSE 2)

ParseInner ==
    /\ pc = "inner"
    /\ InnerParsed(CleanUrl(rawurl), UrlParse(CleanUrl(rawurl)))
    /\ UNCHANGED sql

\* one ParseNested call
NextNested ==
    \/ ParseEnvelope
    \/ ParseInner
    \/ SplitTiers
    \/ ResolveTable
    \/ ResolveSelect
    \/ CombineWhere
    \/ ParseAux
    \/ ResolveOrderBy

(***************************************************************************)
(* Concurrent calls.  Each call of ParseBanquet has its own rawurl, URL    *)
(* and record: rawurl, path, query, pc and b hold one value per call.  The *)
(* calls share the flag, which SetVerbose stores into from other           *)
(* goroutines with no synchronisation, and the log.                        *)
(***************************************************************************)

\* TableResolved with the fallback moved inside the `if verbose` block
TableResolvedWhenVerbose(v, rec) ==
    [rec EXCEPT !.Table = IF rec.Table = "" /\ v THEN parseTable(rec.ColumnPath)
                          ELSE rec.Table]

\* if b.Table == "" { b.Table = parseTable(b.ColumnPath); if verbose {...} }
\* where the read of the flag gave v
TableResolved(v, rec) ==
    [rec EXCEPT !.Table = IF rec.Table = "" THEN parseTable(rec.ColumnPath)
                          ELSE rec.Table]

\* func SetVerbose(v bool) { verbose = v }
SetVerbose(v) ==
    /\ verbose' = v
    /\ stored' = stored \cup {v}
    /\ UNCHANGED <<rawurl, path, query, pc, b, sql, logged>>

CallParsed(c, u) ==
    /\ pc' = [pc EXCEPT ![c] = AfterParse(u.err)]
    /\ path' = [path EXCEPT ![c] = IF u.err THEN path[c] ELSE u.path]
    /\ query' = [query EXCEPT ![c] = IF u.err THEN query[c] ELSE u.rawQuery]
    /\ Diagnostic(IF u.err THEN 3 ELSE 2)

CallParseURL(c) ==
    /\ pc[c] = "url"
    /\ rawurl' = [rawurl EXCEPT ![c] = CleanUrl(rawurl[c])]
    /\ CallParsed(c, UrlParse(CleanUrl(rawurl[c])))
    /\ UNCHANGED <<b, sql>>

CallTiers(c, t) ==
    b' = [b EXCEPT ![c].DataSetPath = t.datasetPath,
                   ![c].Table = t.table,
                   ![c].ColumnPath = t.columnPath]

CallSplitTiers(c) ==
    /\ pc[c] = "tiers"
    /\ CallTiers(c, parseDataSetColumnPath(path[c]))
    /\ pc' = [pc EXCEPT ![c] = "table"]
    /\ Diagnostic(1)
    /\ UNCHANGED <<rawurl, path, query, sql>>

CallResolveTable(c) ==
    /\ pc[c] = "table"
    /\ \E v \in stored :
           /\ b' = [b EXCEPT ![c] = TableResolved(v, b[c])]
           /\ logged' = logged + (IF b[c].Table = "" /\ v THEN 1 ELSE 0)
    /\ pc' = [pc EXCEPT ![c] = "select"]
    /\ UNCHANGED <<rawurl, path, query, sql, verbose, stored>>

CallResolveSelect(c) ==
    /\ pc[c] = "select"
    /\ b' = [b EXCEPT ![c].Select = NormalizedSelect(ParseSelect(b[c].ColumnPath), b[c].Table)]
    /\ pc' = [pc EXCEPT ![c] = "where"]
    /\ Diagnostic(1)
    /\ UNCHANGED <<rawurl, path, query, sql>>

CallCombineWhere(c) ==
    /\ pc[c] = "where"
    /\ b' = [b EXCEPT ![c].Where = CombinedWhere(parseWhere(query[c]),
                                                 parsePathConditions(b[c].ColumnPath))]
    /\ pc' = [pc EXCEPT ![c] = "aux"]
    /\ Diagnostic(IF CombinedWhere(parseWhere(query[c]),
                                   parsePathConditions(b[c].ColumnPath)) # ""
                  THEN 1 ELSE 0)
    /\ UNCHANGED <<rawurl, path, query, sql>>

CallParseAux(c) ==
    /\ pc[c] = "aux"
    /\ b' = [b EXCEPT ![c].GroupBy = ParseGroupBy(path[c], query[c]),
                      ![c].Limit = parseLimit(query[c], path[c]),
                      ![c].Offset = parseOffset(query[c], path[c]),
                      ![c].Having = parseHaving(query[c])]
    /\ pc' = [pc EXCEPT ![c] = "order"]
    /\ Silent
    /\ UNCHANGED <<rawurl, path, query, sql>>

CallOrdered(c, o) ==
    b' = [b EXCEPT ![c].OrderBy = IF o.ob # "" THEN o.ob ELSE b[c].OrderBy,
                   ![c].SortDirection = IF o.ob # "" /\ o.dir # ""
                                        THEN o.dir ELSE b[c].SortDirection]

CallResolveOrderBy(c) ==
    /\ pc[c] = "order"
    /\ CallOrdered(c, parseOrderBy(b[c].ColumnPath, query[c]))
    /\ pc' = [pc EXCEPT ![c] = "done"]
    /\ Silent
    /\ UNCHANGED <<rawurl, path, query, sql>>

\* the goroutines calling ParseBanquet
Calls == {"c1", "c2"}

NextConcurrent ==
    \/ \E v \in BOOLEAN : SetVerbose(v)
    \/ \E c \in Calls :
           \/ CallParseURL(c)
           \/ CallSplitTiers(c)
           \/ CallResolveTable(c)
           \/ CallResolveSelect(c)
           \/ CallCombineWhere(c)
           \/ CallParseAux(c)
           \/ CallResolveOrderBy(c)

(***************************************************************************)
(* Inputs.  A path is a prefix (the dataset and table tiers) followed by   *)
(* tokens of the notation, each joined to the next by ',' or '/'.          *)
(***************************************************************************)
RECURSIVE Glue(_, _)
Glue(toks, seps) ==
    IF Len(toks) = 0 THEN ""
    ELSE IF Len(toks) = 1 THEN toks[1]
    ELSE toks[1] \o seps[1] \o Glue(Tail(toks), Tail(seps))

Seqs(S, n) == UNION {[1..k -> S] : k \in 0..n}

TokenPaths(prefixes, vocab, seps, n) ==
    {p \o Glue(w.t, w.s) :
        p \in prefixes,
        w \in {x \in [t : Seqs(vocab, n), s : Seqs(seps, n)] :
                  Len(x.s) = (IF Len(x.t) = 0 THEN 0 ELSE Len(x.t) - 1)}}

\* the URL text of a path and a query
Locator(p, q) == IF q = "" THEN p ELSE p \o "?" \o q

\* a call ParseBanquet(rawurl)
InitOn(paths, queries) ==
    /\ rawurl \in {Locator(p, q) : p \in paths, q \in queries}
    /\ path = ""
    /\ query = ""
    /\ pc = "url"
    /\ b = NewBanquet
    /\ sql = ""
    /\ verbose = FALSE
    /\ stored = {FALSE}
    /\ logged = 0

\* Spec: column selection, sorting and table resolution
MaxTokens == 2

SelectPrefixes == {"d.db/", "x/d.db;t;", "x/d.db;;"}

SelectVocab == {"a", "t", "+a", "-b", " +c", "a!=1", "[1:3]", "a[1:3]", ""}

Init == InitOn(TokenPaths(SelectPrefixes, SelectVocab, {",", "/"}, MaxTokens), {"", "orderby=n"})

Spec == Init /\ [][Next]_vars

(***************************************************************************)
(* Claims                                                                  *)
(***************************************************************************)

\* the record fields ResolveSelect has written
SelectResolved == pc \in {"where", "aux", "order", "done", "composed"}

\* every comma-separated token of every '/'-separated part of the column path
ColumnTokens(cp) == AllTokens(Split(cp, "/"))

IsSortPrefixed(tok) == HasPrefix(tok, "+") \/ HasPrefix(tok, "-")

IsFilterToken(tok) == Contains(tok, "!=")

IsSliceBracket(tok) == HasPrefix(tok, "[") /\ HasSuffix(tok, "]") /\ Contains(tok, ":")

\* a column path none of whose tokens names a column to select
NoSelectorToken(cp) ==
    \A i \in 1..Len(ColumnTokens(cp)) :
        LET tok == ColumnTokens(cp)[i]
        IN  \/ IsFilterToken(tok)
            \/ IsSortPrefixed(tok)
            \/ IsSliceBracket(tok)
            \/ TrimSpace(tok) = ""

\* C1: once ParseBanquet has resolved it, Select is never the empty sequence,
\* and a column path made only of filter tokens, sort-prefixed tokens, slice
\* brackets and empty tokens (or an empty column path) gives Select = <<"*">>.
C1_SelectNeverEmpty ==
    SelectResolved =>
        /\ Len(b.Select) >= 1
        /\ NoSelectorToken(b.ColumnPath) => b.Select = <<"*">>

\* a column path holding a sort token and a filter token and nothing to select
C1_Witness ==
    /\ pc = "done"
    /\ Contains(b.ColumnPath, "+a")
    /\ Contains(b.ColumnPath, "a!=1")
    /\ NoSelectorToken(b.ColumnPath)
    /\ b.Select = <<"*">>

IsNameChar(c) ==
    Len(c) = 1 /\ Contains("abcdefghijklmnopqrstuvwxyzABCDEFGHIJKLMNOPQRSTUVWXYZ0123456789_", c)

\* a bare table or column name
IsPlainName(s) == Len(s) > 0 /\ \A i \in 0..(Len(s) - 1) : IsNameChar(CharAt(s, i))

\* C10: when the select list resolved from the column path is the single
\* element Table, ParseBanquet leaves Select = <<"*">>; a semicolon-less
\* locator whose column path is one bare name has that name as its Table and
\* selects "*".
C10_TableNameSelectsAll ==
    SelectResolved =>
        /\ ParseSelect(b.ColumnPath) = <<b.Table>> => b.Select = <<"*">>
        /\ (~Contains(path, ";") /\ IsPlainName(b.ColumnPath)) =>
               (b.Table = b.ColumnPath /\ b.Select = <<"*">>)

\* "d.db/t": the column path names the table and no column
C10_Witness ==
    /\ pc = "done"
    /\ ~Contains(path, ";")
    /\ b.Table = "t"
    /\ ParseSelect(b.ColumnPath) = <<"t">>
    /\ b.Select = <<"*">>

\* SpecSort: several sort tokens in one column path
MaxSortTokens == 3

SortVocab == {"a", "+a", "-b", " +c", "-a[1:3]"}

InitSort == InitOn(TokenPaths({"x/d.db;t;", "d.csv/"}, SortVocab, {",", "/"}, MaxSortTokens),
                   {"", "orderby=n"})

SpecSort == InitSort /\ [][Next]_vars

\* the column a sort-prefixed token names: the token without its prefix and
\* without a slice suffix
SortColumn(tok) ==
    LET idx == Index(tok, "[")
        cut == IF idx # -1 THEN Slice(tok, 0, idx) ELSE tok
    IN  Slice(cut, 1, Len(cut))

\* the column a plain token names: the token without a slice suffix, trimmed
SelectedName(tok) ==
    LET idx == Index(tok, "[")
    IN  TrimSpace(IF idx # -1 THEN Slice(tok, 0, idx) ELSE tok)

SortDirectionOf(tok) == IF HasPrefix(tok, "+") THEN "ASC" ELSE "DESC"

\* C7: with no orderby query parameter, of several sort-prefixed tokens of the
\* column path the first one, in segment-then-token order, is OrderBy, with
\* ASC for '+' and DESC for '-', and no sort-prefixed token is in Select.
C7_FirstSortTokenWins ==
    (pc = "done" /\ QueryGet(query, "orderby") = "") =>
        LET sorts == SelectSeq(ColumnTokens(b.ColumnPath), IsSortPrefixed)
        IN  Len(sorts) >= 2 =>
                /\ b.OrderBy = SortColumn(sorts[1])
                /\ b.SortDirection = SortDirectionOf(sorts[1])
                /\ \A i \in 1..Len(b.Select) :
                       \/ b.Select[i] = "*"
                       \/ \E j \in 1..Len(ColumnTokens(b.ColumnPath)) :
                              /\ ~IsSortPrefixed(ColumnTokens(b.ColumnPath)[j])
                              /\ SelectedName(ColumnTokens(b.ColumnPath)[j]) = b.Select[i]

\* SpecTier: the tier splitter.  A path is a first segment followed by up to
\* MaxSegs more, each joined to the one before by '/' or ';'.
MaxSegs == 3

FileVocab ==
    {"d", "x.zip", "x.csv", "x.sqlite", "x.db", "x.xlsx", "x.json", "x.txt",
     "x.html", "test.html", "xtest.html", ".db"}

RestVocab == {"c", "y.csv", ""}

TierPaths ==
    {f \o Glue(<<"">> \o w.t, w.s) :
        f \in FileVocab,
        w \in {x \in [t : Seqs(RestVocab, MaxSegs), s : Seqs({"/", ";"}, MaxSegs)] :
                  Len(x.s) = Len(x.t)}}

InitTier == InitOn(TierPaths, {""})

SpecTier == InitTier /\ [][Next]_vars

\* C2: a path holding ';' is split on its first two ';' only: DataSetPath is
\* the text before the first, the table tier the text between the first and
\* the second (verbatim), ColumnPath all that follows the second, further ';'
\* included; a missing part is empty.  The extension of a segment plays no part.
C2_ExplicitTiers ==
    (pc # "tiers" /\ Contains(path, ";")) =>
        LET i    == Index(path, ";")
            rest == Slice(path, i + 1, Len(path))
            j    == Index(rest, ";")
            tab  == IF j = -1 THEN rest ELSE Slice(rest, 0, j)
        IN  /\ b.DataSetPath = Slice(path, 0, i)
            /\ b.ColumnPath = (IF j = -1 THEN "" ELSE Slice(rest, j + 1, Len(rest)))
            /\ (pc = "table" \/ tab # "") => b.Table = tab

\* three ';' in a path one of whose '/'-segments ends in a dataset extension
C2_Witness ==
    /\ pc = "table"
    /\ Contains(b.ColumnPath, ";")
    /\ b.Table = "c"
    /\ \E k \in 1..Len(Split(path, "/")) : IsDataSetFile(Split(path, "/")[k])

KnownExtensions == {".zip", ".csv", ".sqlite", ".db", ".xlsx", ".json", ".txt"}

EndsInDataSetExtension(seg) ==
    \/ \E ext \in KnownExtensions : HasSuffix(seg, ext)
    \/ (HasSuffix(seg, ".html") /\ seg # "test.html")

\* C3: a path without ';' is cut after its first '/'-segment ending in a known
\* dataset extension: DataSetPath ends with that segment and holds no earlier
\* such segment, ColumnPath is what follows the '/' after it, the table tier is
\* empty; with no such segment DataSetPath is the whole path and the rest empty.
C3_HeuristicTiers ==
    (pc # "tiers" /\ ~Contains(path, ";")) =>
        LET segs   == Split(path, "/")
            dsSegs == Split(b.DataSetPath, "/")
        IN  /\ pc = "table" => b.Table = ""
            /\ IF \E k \in 1..Len(segs) : EndsInDataSetExtension(segs[k])
               THEN /\ EndsInDataSetExtension(dsSegs[Len(dsSegs)])
                    /\ \A k \in 1..(Len(dsSegs) - 1) : ~EndsInDataSetExtension(dsSegs[k])
                    /\ \/ (path = b.DataSetPath /\ b.ColumnPath = "")
                       \/ path = b.DataSetPath \o "/" \o b.ColumnPath
               ELSE b.DataSetPath = path /\ b.ColumnPath = ""

\* "d/y.csv/y.csv...": a plain segment, the first dataset file, then another
C3_Witness ==
    /\ pc = "table"
    /\ ~Contains(path, ";")
    /\ b.DataSetPath = "d/y.csv"
    /\ HasPrefix(b.ColumnPath, "y.csv")
    /\ b.Table = ""

\* SpecSlice: slice notation.  A path is a prefix, a bracket holding two
\* bounds around ':', and text after the bracket.
SliceInts == {MinInt, MinInt + 1, -1, 0, 1, 2, MaxInt - 1, MaxInt}

SliceTexts == {Itoa(n) : n \in SliceInts} \cup {"", "x", " 2 ", Itoa(MaxInt + 1)}

SlicePrefixes == {"x/d.db;t", "d.db/t", "x/d.db;t;a", "x/d.db;t;"}

SliceSuffixes == {"", ",b"}

SlicePaths ==
    {p \o "[" \o s \o ":" \o e \o "]" \o x :
        p \in SlicePrefixes, s \in SliceTexts, e \in SliceTexts, x \in SliceSuffixes}

InitSlice == InitOn(SlicePaths, {"", "limit=7&offset=2"})

SpecSlice == InitSlice /\ [][Next]_vars

AuxParsed == pc \in {"order", "done", "composed"}

NoLimitOffsetParam == QueryGet(query, "limit") = "" /\ QueryGet(query, "offset") = ""

\* a slice bound as written: omitted, or the decimal text of a machine integer
SliceBounds ==
    {[text |-> "", given |-> FALSE, val |-> 0]}
        \cup {[text |-> Itoa(n), given |-> TRUE, val |-> n] : n \in MinInt..MaxInt}

\* C4: for a path ending in [start:end] with integer (or omitted) bounds and no
\* limit/offset parameter, Offset is start (0 when omitted) and Limit is
\* end - start when end >= start, 0 when end < start, unset when end is omitted.
C4_SliceArithmetic ==
    (AuxParsed /\ NoLimitOffsetParam) =>
        \A s \in SliceBounds, e \in SliceBounds :
            HasSuffix(path, "[" \o s.text \o ":" \o e.text \o "]") =>
                /\ b.Offset = Itoa(s.val)
                /\ b.Limit = (IF ~e.given THEN ""
                              ELSE IF e.val >= s.val THEN Itoa(e.val - s.val)
                              ELSE "0")

\* C5: with no limit/offset parameter, the last '[' of the path and the
\* nearest ']' after it delimit the slice, whatever follows that ']': Limit and
\* Offset are those of the path cut off after the ']'.
C5_SliceAnywhere ==
    (AuxParsed /\ NoLimitOffsetParam) =>
        LET i == LastIndex(path, "[")
            j == Index(Slice(path, i, Len(path)), "]")
        IN  (i # -1 /\ j # -1) =>
                /\ b.Limit = parseSlice(Slice(path, 0, i + j + 1)).limit
                /\ b.Offset = parseSlice(Slice(path, 0, i + j + 1)).offset

\* the segment that names the table: the table tier of a ';' path, the column
\* path of a path without ';'
TableSegment ==
    IF Contains(path, ";") THEN parseDataSetColumnPath(path).table
    ELSE parseDataSetColumnPath(path).columnPath

\* C6: when the table segment is a bare name T followed by a bracket (and a
\* ';' path has no column tier), Table is T, Select is <<"*">> and the
\* composed statement reads SELECT * FROM "T" ...
C6_TableSliceTrimmed ==
    LET seg == TableSegment
        k   == Index(seg, "[")
        T   == Slice(seg, 0, k)
    IN  (/\ k # -1
         /\ HasSuffix(seg, "]")
         /\ IsPlainName(T)
         /\ parseDataSetColumnPath(path).columnPath \in {"", seg}) =>
            /\ pc \in {"select", "where", "aux", "order", "done", "composed"} => b.Table = T
            /\ SelectResolved => b.Select = <<"*">>
            /\ pc = "composed" => HasPrefix(sql, "SELECT * FROM \"" \o T \o "\"")

\* SpecWhere: the where clause.  A column path of up to MaxConds tokens, most
\* of them "c!=value" filters, under queries with and without a where value.
MaxConds == 2

FilterValues == {"-2.5", "x", "O%2527R", "%25zz", " 7 ", "nan"}

WhereVocab == {"a"} \cup {"c!=" \o v : v \in FilterValues}

WhereQueries == {"", "where=q%3D1", "limit=5&where=a>1"}

InitWhere == InitOn(TokenPaths({"d.db;t;"}, WhereVocab, {",", "/"}, MaxConds), WhereQueries)

SpecWhere == InitWhere /\ [][Next]_vars

WhereCombined == pc \in {"aux", "order", "done", "composed"}

\* the '!=' tokens of the column path, in source order
FilterTokens(cp) == SelectSeq(ColumnTokens(cp), IsFilterToken)

\* C8: Where is "<queryWhere> AND <pathConditions>" when both exist, the one
\* that exists when only one does, and empty when neither does; pathConditions
\* is one condition per '!=' token, in source order, joined by " AND ".
C8_WhereComposition ==
    WhereCombined =>
        LET qw   == parseWhere(query)
            toks == FilterTokens(b.ColumnPath)
            pw   == Join([i \in 1..Len(toks) |-> PathCondition(toks[i])], " AND ")
        IN  /\ (qw # "" /\ pw # "") => b.Where = qw \o " AND " \o pw
            /\ (qw # "" /\ pw = "") => b.Where = qw
            /\ (qw = "" /\ pw # "") => b.Where = pw
            /\ (qw = "" /\ pw = "") => b.Where = ""

\* a query where value in front of two path conditions
C8_Witness ==
    /\ pc = "done"
    /\ parseWhere(query) = "a>1"
    /\ Len(FilterTokens(b.ColumnPath)) = 2
    /\ b.Where = "a>1 AND c != 'x' AND c != -2.5"

\* the column of a "col!=value" token
FilterColumn(tok) == TrimSpace(Slice(tok, 0, Index(tok, "!=")))

\* the value of a "col!=value" token, percent-decoded when it decodes
FilterValue(tok) ==
    LET raw == TrimSpace(Slice(tok, Index(tok, "!=") + 2, Len(tok)))
    IN  IF QueryUnescape(raw).err THEN raw ELSE QueryUnescape(raw).val

\* reading a quoted literal's inside: ok when every single quote is doubled
RECURSIVE Undoubled(_)
Undoubled(s) ==
    IF Len(s) = 0 THEN [ok |-> TRUE, val |-> ""]
    ELSE IF CharAt(s, 0) = "'"
         THEN IF Len(s) >= 2 /\ CharAt(s, 1) = "'"
              THEN LET r == Undoubled(Slice(s, 2, Len(s)))
                   IN  [ok |-> r.ok, val |-> "'" \o r.val]
              ELSE [ok |-> FALSE, val |-> ""]
    ELSE LET r == Undoubled(Tail(s))
         IN  [ok |-> r.ok, val |-> CharAt(s, 0) \o r.val]

IsQuotedLiteralOf(lit, v) ==
    /\ Len(lit) >= 2
    /\ CharAt(lit, 0) = "'"
    /\ CharAt(lit, Len(lit) - 1) = "'"
    /\ Undoubled(Slice(lit, 1, Len(lit) - 1)).ok
    /\ Undoubled(Slice(lit, 1, Len(lit) - 1)).val = v

\* C9: each '!=' token gives one condition "col != literal" at the end of
\* Where, in order; the literal is the decoded value itself when the value
\* parses as a number, and otherwise the value between single quotes with
\* each of its single quotes doubled.
C9_FilterValueQuoting ==
    WhereCombined =>
        LET toks  == FilterTokens(b.ColumnPath)
            conds == pathConditions(b.ColumnPath)
        IN  /\ Len(conds) = Len(toks)
            /\ Len(conds) > 0 => HasSuffix(b.Where, Join(conds, " AND "))
            /\ \A i \in 1..Len(toks) :
                   LET head == FilterColumn(toks[i]) \o " != "
                       v    == FilterValue(toks[i])
                       lit  == TrimPrefix(conds[i], head)
                   IN  /\ HasPrefix(conds[i], head)
                       /\ IF ParseFloatOk(v) THEN lit = v ELSE IsQuotedLiteralOf(lit, v)

\* a number left bare next to a decoded value whose quote is doubled
C9_Witness ==
    /\ pc = "done"
    /\ path = "d.db;t;c!=-2.5,c!=O%27R"
    /\ b.Where = "c != -2.5 AND c != 'O''R'"

\* SpecTable: the table tier.  Paths whose table tier, or first column-path
\* segment, is built from names and selector tokens.
MaxTableTokens == 2

TablePrefixes == {"d.db;", "d.db/", "d.db;;"}

TableVocab == {"a", "t", "+a", "-b", "a!=1", ""}

InitTable == InitOn(TokenPaths(TablePrefixes, TableVocab, {",", "/"}, MaxTableTokens), {"", "orderby=n"})

SpecTable == InitTable /\ [][Next]_vars

\* the record ParseBanquet returns is complete
Returned == pc \in {"done", "composed"}

\* C11: in the returned record Table holds no comma, no '!=' and no leading
\* '+' or '-'.
C11_TableNoSelectorSyntax ==
    Returned =>
        /\ ~Contains(b.Table, ",")
        /\ ~Contains(b.Table, "!=")
        /\ ~IsSortPrefixed(b.Table)

\* C12: for a path "dataset;;C" with C one plain name, Select is <<C>> and C
\* is not the Table.
C12_FlatFormSelectsColumn ==
    LET i == Index(path, ";")
        C == Slice(path, i + 2, Len(path))
    IN  (/\ Returned
         /\ i # -1
         /\ i = Index(path, ";;")
         /\ IsPlainName(C)) =>
            /\ b.Select = <<C>>
            /\ b.Table # C

\* SpecPaging: limit and offset from the query and from the path.  A query
\* is up to MaxParams parameters joined by '&'.
MaxParams == 2

PagingPaths == {"x/d.db;t", "x/d.db;t;a[1:3]", "x/d.db;t[2:]", "x/d.db;t;a[x:3]", "x/d.db;t;a[1:3],b"}

PagingParams == {"limit=7", "limit=", "limit=abc", "offset=2", "offset=", "x=1"}

PagingQueries == {Glue(w, [i \in 1..Len(w) |-> "&"]) : w \in Seqs(PagingParams, MaxParams)}

InitPaging == InitOn(PagingPaths, PagingQueries)

SpecPaging == InitPaging /\ [][Next]_vars

\* the value written after "key=" in the first parameter of q named key
RECURSIVE FirstParamNamed(_, _)
FirstParamNamed(params, key) ==
    IF Len(params) = 0 THEN ""
    ELSE IF HasPrefix(params[1], key \o "=") THEN TrimPrefix(params[1], key \o "=")
    ELSE FirstParamNamed(Tail(params), key)

ParamValue(q, key) == FirstParamNamed(Split(q, "&"), key)

\* C13: Limit is the limit parameter's value, whatever its text, when that
\* value is not empty, and the slice-derived limit otherwise; Offset likewise
\* with the offset parameter, each independently of the other.
C13_QueryParamPrecedence ==
    AuxParsed =>
        /\ b.Limit = (IF ParamValue(query, "limit") # ""
                      THEN ParamValue(query, "limit") ELSE parseSlice(path).limit)
        /\ b.Offset = (IF ParamValue(query, "offset") # ""
                       THEN ParamValue(query, "offset") ELSE parseSlice(path).offset)

\* a non-numeric limit parameter over a slice that still supplies the offset
C13_Witness ==
    /\ pc = "done"
    /\ path = "x/d.db;t;a[1:3]"
    /\ query = "limit=abc&offset="
    /\ b.Limit = "abc"
    /\ b.Offset = "1"

\* C14: a non-empty orderby parameter is OrderBy and leaves SortDirection
\* empty, whatever sort tokens the column path holds; SortDirection is only
\* ever "", or the direction of a sort token of the column path.
C14_OrderByParamOverrides ==
    Returned =>
        /\ ParamValue(query, "orderby") # "" =>
               (b.OrderBy = ParamValue(query, "orderby") /\ b.SortDirection = "")
        /\ b.SortDirection \in {"", "ASC", "DESC"}
        /\ b.SortDirection # "" =>
               /\ ParamValue(query, "orderby") = ""
               /\ \E i \in 1..Len(ColumnTokens(b.ColumnPath)) :
                      HasPrefix(TrimSpace(ColumnTokens(b.ColumnPath)[i]),
                                IF b.SortDirection = "ASC" THEN "+" ELSE "-")

\* an orderby parameter over a column path that opens with a sort token
C14_Witness ==
    /\ pc = "done"
    /\ query = "orderby=n"
    /\ IsSortPrefixed(ColumnTokens(b.ColumnPath)[1])
    /\ Len(ColumnTokens(b.ColumnPath)) >= 2
    /\ b.OrderBy = "n"
    /\ b.SortDirection = ""

\* SpecGroup: group-by.  Column paths of up to MaxGroupTokens tokens with
\* parentheses, paired and unpaired.
MaxGroupTokens == 2

GroupVocab == {"a", "a(g)", "(h)", ")", "(", "b)"}

GroupQueries == {"", "groupby=q", "groupby="}

InitGroup == InitOn(TokenPaths({"d.db;t;"}, GroupVocab, {",", "/"}, MaxGroupTokens), GroupQueries)

SpecGroup == InitGroup /\ [][Next]_vars

\* the index of the ')' that closes the parenthesis open at depth d, reading
\* s from index k on; -1 when there is none
RECURSIVE Closing(_, _, _)
Closing(s, k, d) ==
    IF k >= Len(s) THEN -1
    ELSE IF CharAt(s, k) = "(" THEN Closing(s, k + 1, d + 1)
    ELSE IF CharAt(s, k) = ")"
         THEN IF d = 1 THEN k ELSE Closing(s, k + 1, d - 1)
    ELSE Closing(s, k + 1, d)

\* the contents of the first '(' of s, from index k on, that has its ')'
RECURSIVE FirstBalanced(_, _)
FirstBalanced(s, k) ==
    IF k >= Len(s) THEN ""
    ELSE IF CharAt(s, k) = "(" /\ Closing(s, k + 1, 1) # -1
         THEN Slice(s, k + 1, Closing(s, k + 1, 1))
    ELSE FirstBalanced(s, k + 1)

\* C15: GroupBy is the groupby parameter when that is not empty; otherwise the
\* contents of the first balanced parenthesis pair of the path, and empty when
\* the path has no such pair.
C15_GroupBy ==
    AuxParsed =>
        b.GroupBy = (IF ParamValue(query, "groupby") # ""
                     THEN ParamValue(query, "groupby") ELSE FirstBalanced(path, 0))

\* SpecCompose: the composed statement.  Dataset paths with and without a
\* relational extension, in both letter cases, with and without a table, under
\* every subset of the six clause parameters.
ComposeDataSets ==
    {"d.db", "d.DB", "d.sqlite", "d.Sqlite", "d.csv", "d.db.csv", "ddb", "d.dbx", ".db"}

ComposeTails == {"", ";t", ";;+b", ";t;a,+b"}

ComposeParams == <<"where=x>1", "groupby=g", "having=c>1", "orderby=n", "limit=5", "offset=2">>

ComposeQueries ==
    {LET w == SelectSeq(ComposeParams, LAMBDA x : x \in S)
     IN  Glue(w, [i \in 1..Len(w) |-> "&"]) : S \in SUBSET {ComposeParams[i] : i \in 1..Len(ComposeParams)}}

InitCompose == InitOn({d \o t : d \in ComposeDataSets, t \in ComposeTails}, ComposeQueries)

SpecCompose == InitCompose /\ [][Next]_vars

\* " KEYWORD text" when the clause is present, nothing otherwise
Clause(present, keyword, text) == IF present THEN " " \o keyword \o " " \o text ELSE ""

\* the select list of a statement: "*" or the quoted columns, comma-separated
SelectList(sel) ==
    IF Len(sel) = 0 \/ sel[1] = "*" THEN "*"
    ELSE Join([i \in 1..Len(sel) |-> QuoteIdentifier(sel[i])], ", ")

\* the table a statement names: Table, or the inferred one when Table is empty
NamedTable == IF b.Table # "" THEN b.Table ELSE InferTable(b)

\* C16: the statement is SELECT and FROM, then WHERE, GROUP BY, HAVING,
\* ORDER BY, LIMIT and OFFSET in that order, each present exactly when its
\* field is not empty, a single space between clauses, and the direction
\* after the ORDER BY column exactly when SortDirection is not empty.
C16_ClauseOrder ==
    pc = "composed" =>
        sql = "SELECT " \o SelectList(b.Select)
              \o " FROM " \o QuoteIdentifier(NamedTable)
              \o Clause(b.Where # "", "WHERE", b.Where)
              \o Clause(b.GroupBy # "", "GROUP BY", QuoteIdentifier(b.GroupBy))
              \o Clause(b.Having # "", "HAVING", b.Having)
              \o Clause(b.OrderBy # "", "ORDER BY",
                        QuoteIdentifier(b.OrderBy)
                        \o (IF b.SortDirection # "" THEN " " \o b.SortDirection ELSE ""))
              \o Clause(b.Limit # "", "LIMIT", b.Limit)
              \o Clause(b.Offset # "", "OFFSET", b.Offset)

\* every clause at once, the order-by column and direction from the path
C16_Witness ==
    /\ pc = "composed"
    /\ b.SortDirection = "ASC"
    /\ sql = "SELECT \"a\" FROM \"t\" WHERE x>1 GROUP BY \"g\" HAVING c>1 ORDER BY \"b\" ASC LIMIT 5 OFFSET 2"

\* s ends in ext, letter case aside
EndsInFold(s, ext) ==
    Len(s) >= Len(ext) /\ ToLower(Slice(s, Len(s) - Len(ext), Len(s))) = ext

\* C18: with Table empty the statement names "sqlite_master" when the dataset
\* path ends in .sqlite or .db in any letter case, and "tb0" otherwise; the
\* FROM clause never names an empty table.
C18_InferredTable ==
    pc = "composed" =>
        LET from == "SELECT " \o SelectList(b.Select) \o " FROM "
        IN  /\ HasPrefix(sql, from)
            /\ ~HasPrefix(TrimPrefix(sql, from), " ")
            /\ TrimPrefix(sql, from) # ""
            /\ b.Table = "" =>
                   HasPrefix(TrimPrefix(sql, from) \o " ",
                             (IF EndsInFold(b.DataSetPath, ".sqlite") \/ EndsInFold(b.DataSetPath, ".db")
                              THEN "\"sqlite_master\"" ELSE "\"tb0\"") \o " ")

\* an upper-case relational extension and no table
C18_Witness ==
    /\ pc = "composed"
    /\ b.DataSetPath = "d.DB"
    /\ b.Table = ""
    /\ sql = "SELECT * FROM \"sqlite_master\""

\* SpecQuote: identifier quoting.  Table and column are every text of up to
\* MaxIdentLen characters over a letter, the double quote and the star.
MaxIdentLen == 2

IdentChars == {"a", "\"", "*"}

Idents == {Glue(w, [i \in 1..Len(w) |-> ""]) : w \in Seqs(IdentChars, MaxIdentLen)}

InitQuote == InitOn({"d.db;" \o t \o ";" \o c : t \in Idents, c \in Idents}, {"", "groupby=a\"&orderby=*"})

SpecQuote == InitQuote /\ [][Next]_vars

\* reading a quoted identifier's inside: ok when every double quote is doubled
RECURSIVE UndoubledIdent(_)
UndoubledIdent(s) ==
    IF Len(s) = 0 THEN [ok |-> TRUE, val |-> ""]
    ELSE IF CharAt(s, 0) = "\""
         THEN IF Len(s) >= 2 /\ CharAt(s, 1) = "\""
              THEN LET r == UndoubledIdent(Slice(s, 2, Len(s)))
                   IN  [ok |-> r.ok, val |-> "\"" \o r.val]
              ELSE [ok |-> FALSE, val |-> ""]
    ELSE LET r == UndoubledIdent(Tail(s))
         IN  [ok |-> r.ok, val |-> CharAt(s, 0) \o r.val]

\* q is s between double quotes with each double quote of s doubled
IsQuotedIdentOf(q, s) ==
    /\ Len(q) >= 2
    /\ CharAt(q, 0) = "\""
    /\ CharAt(q, Len(q) - 1) = "\""
    /\ UndoubledIdent(Slice(q, 1, Len(q) - 1)).ok
    /\ UndoubledIdent(Slice(q, 1, Len(q) - 1)).val = s

\* the identifiers Compose quotes for the record
RecordIdents == {NamedTable, b.GroupBy, b.OrderBy} \cup {b.Select[i] : i \in 1..Len(b.Select)}

\* C17: for each identifier of the composed record QuoteIdentifier gives ""
\* and "*" back unchanged and any other text between double quotes with its
\* double quotes doubled, so that un-doubling the inside reads the text
\* back; two identifiers quoted alike are the same; and the statement names
\* its table in that quoted form.
C17_QuoteIdentifier ==
    pc = "composed" =>
        /\ \A s \in RecordIdents :
               IF s \in {"", "*"} THEN QuoteIdentifier(s) = s
               ELSE IsQuotedIdentOf(QuoteIdentifier(s), s)
        /\ \A s \in RecordIdents, t \in Idents :
               QuoteIdentifier(s) = QuoteIdentifier(t) => s = t
        /\ HasPrefix(sql, "SELECT " \o SelectList(b.Select) \o " FROM "
                              \o QuoteIdentifier(NamedTable))
        /\ (NamedTable \notin {"", "*"} /\ query = "") =>
               IsQuotedIdentOf(TrimPrefix(sql, "SELECT " \o SelectList(b.Select) \o " FROM "),
                               NamedTable)

\* a table and a column each holding a double quote
C17_Witness ==
    /\ pc = "composed"
    /\ b.Table = "a\""
    /\ b.Select = <<"\"a">>
    /\ sql = "SELECT \"\"\"a\" FROM \"a\"\"\""

\* SpecUrl: the URL text.  Locators the URL parser accepts and rejects
\* (scheme, authority, first-segment colon, escapes, fragment), each followed
\* by notation of every later stage.
UrlHeads ==
    {"", "/", "*", ":x", "a:b/c", "1:b", "d.db", "/x/d.db", "x/d.db", "d.db;t[1:3]",
     "gs:/bucket/f.csv", "gs://bucket/f.csv", "http://h:80/d.db", "http://h:x/d.db",
     "http://u@h/d.db", "http://u^@h/d.db", "http://[::1]/d.db", "http://[::1/d.db",
     "http://h h/d.db", "//h/d.db", "///d.db", "file:///d.db", "d.db/a%zz", "d.db/a%41",
     "d b/c", "mailto:x"}

UrlTails ==
    {"", ";t;a,+b[1:3]", "/a!=1,(g)", ";[", ";t;]", "/)a(", "?limit=x&orderby=n", "?", "#f", "#%zz"}

InitUrl == InitOn({h \o t : h \in UrlHeads, t \in UrlTails}, {""})

SpecUrl == InitUrl /\ [][Next]_vars

\* the index and slice expressions of the later stages are in range on p:
\* pathStr[idx+1 : len(pathStr)-1] of parseSlice, path[start+1 : end] of
\* ParseGroupBy, parts[0] of the splitters
IndexesInRange(p, cp) ==
    /\ (HasSuffix(p, "]") /\ LastIndex(p, "[") # -1) =>
           (0 <= LastIndex(p, "[") + 1 /\ LastIndex(p, "[") + 1 <= Len(p) - 1)
    /\ (Contains(p, "(") /\ Contains(p, ")") /\ Index(p, "(") < Index(p, ")")) =>
           Index(p, "(") + 1 <= Index(p, ")")
    /\ Len(SplitN(p, ";", 3)) >= 1
    /\ Len(Split(p, "/")) >= 1
    /\ Len(Split(TrimChar(cp, "/"), "/")) >= 1

\* C19: ParseBanquet returns an error, and no record, exactly when url.Parse
\* rejects the cleaned URL; on every accepted URL the index expressions of
\* the later stages are in range, and the returned record has its defaults:
\* a non-empty Select and a direction that is unset, ASC or DESC.
C19_OnlyParseErrors ==
    /\ pc = "error" => (UrlParse(rawurl).err /\ b = NewBanquet /\ sql = "")
    /\ pc \notin {"url", "error"} => ~UrlParse(rawurl).err
    /\ pc \notin {"url", "error"} => IndexesInRange(path, b.ColumnPath)
    /\ Returned =>
           /\ Len(b.Select) >= 1
           /\ b.SortDirection \in {"", "ASC", "DESC"}

\* a slice in the first path segment: the URL parser rejects its colon
C19_Witness ==
    /\ pc = "error"
    /\ rawurl = "d.db;t[1:3];t;a,+b[1:3]"
    /\ UrlParse(rawurl).err

\* SpecNested: ParseNested calls.  Envelopes with and without an authority,
\* around inner notation that ParseBanquet accepts and rejects.
EnvelopeHeads == {"http://h/", "/http://h/", "http://h h/", "x/", "/", "", "//h/", ":"}

InnerTexts ==
    {"", "1:b", ":x", "1:b;t;a,+b", "d.db;t;a,-b", "x/d.db;t;a[1:3]", "gs://bucket/f.csv;t",
     "gs:/bucket/f.csv", "http://[::1/d.db", "http://h:x/d.db", "a b.db/t", "d.db/t/a!=1",
     "a%2541.db;t", "a%zz", "a%3A1;t;b", "c.db;t;(g)", "*"}

EnvelopeQueries == {"", "?limit=3", "?where=a%3D1&orderby=n", "#f"}

InitNested ==
    /\ rawurl \in {h \o i \o q : h \in EnvelopeHeads, i \in InnerTexts, q \in EnvelopeQueries}
    /\ path = ""
    /\ query = ""
    /\ pc = "nested"
    /\ b = NewBanquet
    /\ sql = ""
    /\ verbose = FALSE
    /\ stored = {FALSE}
    /\ logged = 0

SpecNested == InitNested /\ [][NextNested]_vars

\* C20: once the envelope has parsed, a failure of ParseBanquet on the inner
\* text is never returned as an error: the step taken on the inner text ends
\* either in ParseBanquet's stages or in the partial record, and the partial
\* record is returned exactly when url.Parse rejects the cleaned inner text,
\* with the inner text as its path, no query, and Table, Select, Where, Limit,
\* Offset, OrderBy, GroupBy, Having, DataSetPath and ColumnPath all unset.
C20_PartialRecord ==
    [][/\ pc = "inner" =>
              /\ pc' \in {"partial", "tiers"}
              /\ pc' = "partial" <=> UrlParse(CleanUrl(rawurl)).err
       /\ pc' = "partial" =>
              /\ pc = "inner"
              /\ path' = rawurl
              /\ rawurl' = rawurl
              /\ query' = ""
              /\ b' = NewBanquet
              /\ b'.Table = "" /\ b'.Select = <<>> /\ b'.Where = ""
              /\ b'.Limit = "" /\ b'.Offset = "" /\ b'.OrderBy = ""
              /\ b'.GroupBy = "" /\ b'.Having = ""
              /\ b'.DataSetPath = "" /\ b'.ColumnPath = ""]_vars

\* the envelope http://h/1:b;t;a,+b?limit=3 parses; its inner text has a colon
\* in the first path segment once the leading '/' is cleaned away
C20_Witness ==
    /\ pc = "partial"
    /\ rawurl = "/1:b;t;a,+b?limit=3"
    /\ path = "/1:b;t;a,+b?limit=3"
    /\ query = ""
    /\ b = NewBanquet

\* SpecBadSlice: brackets that are no slice.  A path is a prefix followed by
\* a bracket text: two bounds of which one is no integer, content that ':'
\* does not split in two, a bracket pair that is not closed or not opened;
\* and, beside them, slices that are read.
BadSlicePrefixes == {"x/d.db;t", "d.db/t", "x/d.db;t;a", "x/d.db;t;a,b"}

BracketTexts ==
    {"[x:3]", "[1:x]", "[1.5:3]", "[-:2]", "[1:3 4]", "[0x1:2]", "[1e1:2]", "[:x]", "[x:]",
     "[1]", "[]", "[1:2:3]", "[a]", "[::]",
     "[1:3", "1:3]", "]1:3[", "[1:3]]", "[1:[3]", "[1:3] ", "[1:3],c", "(1:3)",
     "[1:3]", "[:]", "[ 1 : 3 ]", "[[1:3]", "[+1:3]", ""}

BadSliceQueries == {"", "limit=7", "offset=2&limit=7", "limit=&offset="}

InitBadSlice ==
    InitOn({p \o t : p \in BadSlicePrefixes, t \in BracketTexts}, BadSliceQueries)

SpecBadSlice == InitBadSlice /\ [][Next]_vars

\* decimal digits after an optional sign
IsIntegerText(t) ==
    LET d == IF Len(t) > 0 /\ CharAt(t, 0) \in {"+", "-"} THEN Tail(t) ELSE t
    IN  Len(d) > 0 /\ \A k \in 0..(Len(d) - 1) : IsDigit(CharAt(d, k))

\* no bracket pair closes the path: it does not end in ']' or holds no '['
MalformedBracketPair(p) == ~HasSuffix(p, "]") \/ ~Contains(p, "[")

\* the text between the last '[' and the closing ']'
BracketContent(p) == Slice(p, LastIndex(p, "[") + 1, Len(p) - 1)

\* the content is not two parts around one ':'
NotTwoParts(p) == ~MalformedBracketPair(p) /\ Len(Split(BracketContent(p), ":")) # 2

\* one of the two parts is given and is no integer
NonNumericBound(p) ==
    /\ ~MalformedBracketPair(p)
    /\ Len(Split(BracketContent(p), ":")) = 2
    /\ \E k \in 1..2 :
           LET t == TrimSpace(Split(BracketContent(p), ":")[k])
           IN  t # "" /\ ~IsIntegerText(t)

\* C21: on a locator the URL parser accepts, a path whose bracket pair is
\* malformed, whose bracket content is not two parts around ':', or one of
\* whose bounds is no integer, gives neither Limit nor Offset when no limit
\* or offset parameter is given; and no such path ends the parse in an error.
C21_BadSliceYieldsNothing ==
    /\ pc # "error"
    /\ (/\ AuxParsed
        /\ NoLimitOffsetParam
        /\ MalformedBracketPair(path) \/ NotTwoParts(path) \/ NonNumericBound(path)) =>
           (b.Limit = "" /\ b.Offset = "")

\* a slice whose end is no integer: the record is returned without Limit and
\* Offset, the column before the bracket is selected
C21_Witness ==
    /\ pc = "done"
    /\ path = "x/d.db;t;a[1:x]"
    /\ query = ""
    /\ NonNumericBound(path)
    /\ b.Limit = ""
    /\ b.Offset = ""
    /\ b.Select = <<"a">>

\* SpecClean: the texts CleanUrl rewrites and leaves alone: leading slashes,
\* truncated and whole scheme separators, a ":/" after the first one.
CleanInputs ==
    {"/", "", "//", "///", ".", "//x/d.db;t", "/x/d.db;t;a", "x/d.db;t;a", "x/d.db/t/+a",
     "/s3:/bucket/f.csv", "gs:/bucket/f.csv;t", "gs://bucket/f.csv", "/gs://bucket/f.csv",
     "http://h/gs:/b/d.db", "http:/h/gs:/b/d.db", "a:/b:/c.db", "x/a:/b.csv", "a:///b.db",
     ":/", "a:/", "a:", "://", "a://", "/:/x", "a:b/c", "/a:b/c", "x/d.db;t;a:/b",
     "/http:/h:80/some/local/path/file.csv;col1,col2,col3"}

InitClean == InitOn(CleanInputs, {"", "limit=3"})

SpecClean == InitClean /\ [][Next]_vars

\* the text without one leading '/'
LessLeadingSlash(s) == IF Len(s) > 0 /\ CharAt(s, 0) = "/" THEN Tail(s) ELSE s

\* s with '/' put in before position k
SlashInsertedAt(s, k) == Slice(s, 0, k) \o "/" \o Slice(s, k, Len(s))

\* ":/" stands at position k of s and no second '/' follows it
TruncatedSeparatorAt(s, k) ==
    /\ k + 2 <= Len(s)
    /\ Slice(s, k, k + 2) = ":/"
    /\ (k + 2 < Len(s) => CharAt(s, k + 2) # "/")

\* the first position at or after k of a ":/" that no second '/' follows, or -1
RECURSIVE FirstTruncatedSeparator(_, _)
FirstTruncatedSeparator(s, k) ==
    IF k + 2 > Len(s) THEN -1
    ELSE IF TruncatedSeparatorAt(s, k) THEN k
    ELSE FirstTruncatedSeparator(s, k + 1)

\* C22 as stated: "/" becomes "."; otherwise one leading '/' goes and, when the
\* text holds a ":/" that no second '/' follows, the missing '/' is inserted at
\* the first such ":/"; nothing else changes.
C22_RepairsFirstTruncated ==
    [][pc = "url" =>
          LET s == LessLeadingSlash(rawurl)
              k == FirstTruncatedSeparator(s, 0)
          IN  rawurl' = (IF rawurl = "/" THEN "."
                         ELSE IF k # -1 THEN SlashInsertedAt(s, k + 2)
                         ELSE s)]_vars

\* C22, amended: "/" becomes "."; otherwise one leading '/' goes and, when the
\* first ":/" of the text is not followed by a second '/', the missing '/' is
\* inserted there; a ":/" after the first one is left as written, and nothing
\* else changes.
C22_RepairsFirstSeparator ==
    [][pc = "url" =>
          LET s == LessLeadingSlash(rawurl)
              i == Index(s, ":/")
          IN  rawurl' = (IF rawurl = "/" THEN "."
                         ELSE IF i # -1 /\ TruncatedSeparatorAt(s, i)
                              THEN SlashInsertedAt(s, i + 2)
                         ELSE s)]_vars

\* /s3:/bucket/f.csv has lost its slash and its separator is repaired: no
\* input of SpecClean holds "s3://"
C22_Witness ==
    /\ pc = "tiers"
    /\ rawurl = "s3://bucket/f.csv"
    /\ path = "/f.csv"

\* the text holds no "://" and no ":/", and a ':' stands before its first '/'
BareColonBeforeSlash(s) ==
    /\ ~Contains(s, ":/")
    /\ Contains(s, ":")
    /\ Contains(s, "/")
    /\ Index(s, ":") < Index(s, "/")

\* C23: an input with no "://" in which a bare ':' occurs before the first
\* '/' (a:b/c) is cleaned to "./" followed by the whole input.
C23_LocalColonPrefixed ==
    [][(pc = "url" /\ BareColonBeforeSlash(rawurl)) => rawurl' = "./" \o rawurl]_vars

\* SpecLiteral: literal column names.  Column paths of up to MaxLiteralTokens
\* tokens: names led by '^' and "!^", plain names, sort tokens, and a sort
\* token behind a blank.
MaxLiteralTokens == 2

LiteralVocab == {"^a", "!^b", "a", "t", "+d", "-e", " +c", "^a ", "a-b"}

InitLiteral ==
    InitOn(TokenPaths({"x/d.db;t;", "d.csv/"}, LiteralVocab, {",", "/"}, MaxLiteralTokens),
           {"", "orderby=n"})

SpecLiteral == InitLiteral /\ [][Next]_vars

\* a token that is a name: not blank, no sort prefix, no filter, no bracket
IsLiteralToken(tok) ==
    /\ TrimSpace(tok) # ""
    /\ ~IsSortPrefixed(tok)
    /\ ~IsFilterToken(tok)
    /\ ~Contains(tok, "[")

\* the column a sort token names: the text after its prefix, up to a bracket
SortTokenColumn(tok) ==
    LET k == Index(tok, "[")
    IN  Slice(tok, 1, IF k = -1 THEN Len(tok) ELSE k)

\* C24: in the returned record every token of the selecting segments that
\* begins with a character other than '+' and '-' is a column of Select as
\* written (or is the table name, and Select is *), and no OrderBy or
\* direction comes from such a token: without an orderby parameter, OrderBy
\* is unset or is the column of a token that begins with '+' or '-'.
C24_LiteralTokens ==
    Returned =>
        /\ \A i \in 1..Len(AllTokens(getSegments(b.ColumnPath))) :
               LET tok == AllTokens(getSegments(b.ColumnPath))[i]
               IN  IsLiteralToken(tok) =>
                       \/ \E k \in 1..Len(b.Select) : b.Select[k] = TrimSpace(tok)
                       \/ (b.Select = <<"*">> /\ TrimSpace(tok) = b.Table)
        /\ QueryGet(query, "orderby") = "" =>
               \/ (b.OrderBy = "" /\ b.SortDirection = "")
               \/ \E i \in 1..Len(ColumnTokens(b.ColumnPath)) :
                      LET tok == ColumnTokens(b.ColumnPath)[i]
                      IN  /\ IsSortPrefixed(tok)
                          /\ b.OrderBy = SortTokenColumn(tok)
                          /\ b.SortDirection = SortDirectionOf(tok)

\* SpecConcurrent: two ParseBanquet calls and any number of SetVerbose
\* calls, interleaved at every read of the flag.
ConcurrentInputs ==
    {"x/d.db;t;a,+b[1:3]?where=q", "d.csv/t/c!=1", "/gs:/bucket/f.csv;;a", "1:b"}

InitConcurrent ==
    /\ rawurl \in [Calls -> ConcurrentInputs]
    /\ path = [c \in Calls |-> ""]
    /\ query = [c \in Calls |-> ""]
    /\ pc = [c \in Calls |-> "url"]
    /\ b = [c \in Calls |-> NewBanquet]
    /\ sql = ""
    /\ verbose = FALSE
    /\ stored = {FALSE}
    /\ logged = 0

SpecConcurrent == InitConcurrent /\ [][NextConcurrent]_vars

\* the record ParseBanquet returns for a cleaned URL when nothing else runs
RecordAlone(cleaned) ==
    LET u     == UrlParse(cleaned)
        t     == parseDataSetColumnPath(u.path)
        table == IF t.table = "" THEN parseTable(t.columnPath) ELSE t.table
        o     == parseOrderBy(t.columnPath, u.rawQuery)
    IN  [DataSetPath   |-> t.datasetPath,
         Table         |-> table,
         ColumnPath    |-> t.columnPath,
         Select        |-> NormalizedSelect(ParseSelect(t.columnPath), table),
         Where         |-> CombinedWhere(parseWhere(u.rawQuery),
                                         parsePathConditions(t.columnPath)),
         GroupBy       |-> ParseGroupBy(u.path, u.rawQuery),
         Having        |-> parseHaving(u.rawQuery),
         OrderBy       |-> o.ob,
         SortDirection |-> IF o.ob # "" THEN o.dir ELSE "",
         Limit         |-> parseLimit(u.rawQuery, u.path),
         Offset        |-> parseOffset(u.rawQuery, u.path)]

\* C25: under every interleaving of the calls with each other and with
\* SetVerbose, a call that returns a record returns the record of its URL run
\* alone, a call fails exactly when url.Parse rejects its cleaned URL, and
\* the flag shows only in the log: no line is logged unless true was stored.
C25_ConcurrentCalls ==
    /\ \A c \in Calls :
           /\ pc[c] = "done" => b[c] = RecordAlone(rawurl[c])
           /\ pc[c] = "error" => (UrlParse(rawurl[c]).err /\ b[c] = NewBanquet)
           /\ pc[c] \notin {"url", "error"} => ~UrlParse(rawurl[c]).err
    /\ logged > 0 => TRUE \in stored

\* both calls have returned; the flag was set and cleared while they ran, so
\* that three lines were logged
C25_Witness ==
    /\ pc["c1"] = "done"
    /\ pc["c2"] = "done"
    /\ rawurl["c1"] = "x/d.db;t;a,+b[1:3]?where=q"
    /\ rawurl["c2"] = "d.csv/t/c!=1"
    /\ verbose = FALSE
    /\ TRUE \in stored
    /\ logged = 3
    /\ b["c1"].OrderBy = "b"
    /\ b["c1"].Limit = "2"
    /\ b["c2"].Table = "t"
    /\ b["c2"].Where = "c != 1"

(***************************************************************************)
(* dart/lib/banquet.dart: the functions of the Dart port that are written  *)
(* differently from their Go counterparts                                  *)
(***************************************************************************)
\* cleanUrl: as CleanUrl, and a text with no ":/" whose ':' stands before its
\* first '/' (or that has no '/') is returned behind "./"
cleanUrl(url) ==
    LET r         == TrimPrefix(url, "/")
        schemeIdx == Index(r, ":/")
        slashIdx  == Index(r, "/")
        colonIdx  == Index(r, ":")
    IN  IF url = "/" THEN "."
        ELSE IF schemeIdx # -1
             THEN IF ~HasPrefix(Slice(r, schemeIdx, Len(r)), "://")
                  THEN Slice(r, 0, schemeIdx) \o "://" \o Slice(r, schemeIdx + 2, Len(r))
                  ELSE r
        ELSE IF ~Contains(r, "://") /\ Contains(r, ":") /\ (slashIdx = -1 \/ colonIdx < slashIdx)
             THEN "./" \o r
        ELSE r

_parseTable(columnPath) ==
    LET parts == Split(TrimChar(columnPath, "/"), "/")
        first == parts[1]
    IN  IF columnPath = "" THEN ""
        ELSE IF parts[1] = "" THEN ""
        ELSE IF \/ Contains(first, ",")
                \/ HasPrefix(first, ASC)
                \/ HasPrefix(first, DESC)
                \/ Contains(first, "!=")
                \/ Contains(first, "=")
                \/ Contains(first, ">")
                \/ Contains(first, "<")
                \/ (HasPrefix(first, "[") /\ Contains(first, ":"))
             THEN ""
        ELSE first

\* parseBanquet's table: the explicit tier or the heuristic one, cut at its
\* first '['
dartTable(table, columnPath) ==
    LET t          == IF table = "" THEN _parseTable(columnPath) ELSE table
        bracketIdx == Index(t, "[")
    IN  IF bracketIdx # -1 THEN Slice(t, 0, bracketIdx) ELSE t

_getSegments(columnPath) ==
    LET parts == Split(columnPath, "/")
        hits  == {i \in 1..Len(parts) :
                    \/ Contains(parts[i], ",")
                    \/ HasPrefix(parts[i], ASC)
                    \/ HasPrefix(parts[i], DESC)
                    \/ Contains(parts[i], "!=")
                    \/ (HasPrefix(parts[i], "[") /\ Contains(parts[i], ":"))}
    IN  IF Len(parts) = 1 /\ parts[1] = "" THEN <<>>
        ELSE IF hits # {}
             THEN SubSeq(parts, CHOOSE k \in hits : \A j \in hits : k <= j, Len(parts))
        ELSE SubSeq(parts, Len(parts), Len(parts))

\* what one comma-separated token appends to collected in parseSelect: the
\* bracket is cut only when a ':' follows it, and the token is trimmed before
\* the filter and sort tests
dartSelectToken(col) ==
    LET idx     == Index(col, "[")
        cut     == IF idx # -1 /\ Contains(Slice(col, idx, Len(col)), ":")
                   THEN Slice(col, 0, idx) ELSE col
        trimmed == TrimSpace(cut)
    IN  IF trimmed = "" THEN <<>>
        ELSE IF Contains(trimmed, "!=") THEN <<>>
        ELSE IF HasPrefix(trimmed, ASC) \/ HasPrefix(trimmed, DESC) THEN <<>>
        ELSE <<trimmed>>

RECURSIVE dartSelectTokens(_)
dartSelectTokens(cols) ==
    IF Len(cols) = 0 THEN <<>> ELSE dartSelectToken(cols[1]) \o dartSelectTokens(Tail(cols))

RECURSIVE dartSelectSegments(_)
dartSelectSegments(segments) ==
    IF Len(segments) = 0 THEN <<>>
    ELSE (IF segments[1] = "" THEN <<>> ELSE dartSelectTokens(Split(segments[1], ",")))
         \o dartSelectSegments(Tail(segments))

parseSelect(columnPath) ==
    LET segments  == _getSegments(columnPath)
        collected == dartSelectSegments(segments)
    IN  IF Len(segments) = 0 THEN <<"*">>
        ELSE IF Len(collected) = 0 THEN <<"*">>
        ELSE collected

\* _parseSlice: the bracket pair is the last '[' and the first ']' after it,
\* wherever the text ends; int.tryParse reads the decimal texts Atoi reads,
\* and a start of -1 stands for an unreadable one
_parseSlice(pathStr) ==
    LET none     == [limit |-> "", offset |-> ""]
        startIdx == LastIndex(pathStr, "[")
        sub      == Slice(pathStr, startIdx, Len(pathStr))
        endIdx   == Index(sub, "]")
        content  == Slice(sub, 1, endIdx)
        parts    == Split(content, ":")
        startStr == TrimSpace(parts[1])
        endStr   == TrimSpace(parts[2])
        s        == Atoi(startStr)
        e        == Atoi(endStr)
        start    == IF startStr = "" THEN 0 ELSE IF s.ok THEN s.val ELSE -1
        l        == WrapInt(e.val - start)
    IN  IF startIdx = -1 THEN none
        ELSE IF endIdx = -1 THEN none
        ELSE IF Len(parts) # 2 THEN none
        ELSE IF start = -1 THEN none
        ELSE IF endStr # "" /\ ~e.ok THEN none
        ELSE [limit  |-> IF endStr # "" THEN Itoa(IF l < 0 THEN 0 ELSE l) ELSE "",
              offset |-> Itoa(start)]

\* SpecPort: the locators of SpecClean and locators with brackets in the
\* table tier and the column tier, a sort token behind a blank, and brackets
\* that do not end the path
PortInputs ==
    CleanInputs \cup
    {"x/d.db;t[1:3]", "x/d.db;t;a[1:3]", "x/d.db;t;a[1:3]/b", "x/d.db;t;a, +c",
     "x/d.db;t;a[-1:2]", "x/d.db;t;a[2:]", "x/d.db;t;a[x],b", "x/d.db;t;+a,b",
     "d.csv/t/a,b[0:5]", "x/d.db;;a"}

InitPort == InitOn(PortInputs, {"", "limit=3"})

SpecPort == InitPort /\ [][Next]_vars

\* C26: each stage of ParseBanquet leaves what the same stage of the Dart
\* parseBanquet computes from the same text: the cleaned locator, the table,
\* the select list, and the limit and offset of the slice.
C26_DartMirrorsGo ==
    [][/\ pc = "url" => rawurl' = cleanUrl(rawurl)
       /\ pc = "table" => b'.Table = dartTable(b.Table, b.ColumnPath)
       /\ pc = "select" =>
              b'.Select = NormalizedSelect(parseSelect(b.ColumnPath),
                                           dartTable(b.Table, b.ColumnPath))
       /\ (pc = "aux" /\ NoLimitOffsetParam) =>
              /\ b'.Limit = _parseSlice(path).limit
              /\ b'.Offset = _parseSlice(path).offset]_vars

\* SpecResolver: the table resolver.  Column paths of up to MaxResolverTokens
\* tokens behind a dataset with no table tier, an empty one, or a named one:
\* names, comparisons, sort tokens, brackets with and without ':', and empty
\* tokens, which give leading, doubled and trailing slashes.
MaxResolverTokens == 2

ResolverPrefixes == {"d.db/", "x/d.db;;", "x/d.db;u;", "x/f/"}

ResolverVocab == {"t", "a=1", "a<1", "a>1", "a!=1", "+a", "-b", "[1:3]", "[x]", ""}

InitResolver ==
    InitOn(TokenPaths(ResolverPrefixes, ResolverVocab, {",", "/"}, MaxResolverTokens), {""})

SpecResolver == InitResolver /\ [][Next]_vars

\* s without the slashes at its two ends
RECURSIVE StripSlashes(_)
StripSlashes(s) ==
    IF Len(s) > 0 /\ CharAt(s, 0) = "/" THEN StripSlashes(Tail(s))
    ELSE IF Len(s) > 0 /\ CharAt(s, Len(s) - 1) = "/" THEN StripSlashes(Slice(s, 0, Len(s) - 1))
    ELSE s

\* the text of s before its first '/'
FirstSegment(s) ==
    LET stops == {k \in 0..Len(s) : k = Len(s) \/ CharAt(s, k) = "/"}
    IN  Slice(s, 0, CHOOSE k \in stops : \A j \in stops : k <= j)

HasChar(s, c) == \E i \in 0..(Len(s) - 1) : CharAt(s, i) = c

HasPair(s, c, d) == \E i \in 0..(Len(s) - 2) : CharAt(s, i) = c /\ CharAt(s, i + 1) = d

\* the segment holds ',', "!=", '=', '<' or '>', begins with '+' or '-', or
\* begins with '[' and holds ':'
ShowsSelector(seg) ==
    \/ \E c \in {",", "=", "<", ">"} : HasChar(seg, c)
    \/ HasPair(seg, "!", "=")
    \/ (Len(seg) > 0 /\ CharAt(seg, 0) \in {"+", "-"})
    \/ (Len(seg) > 0 /\ CharAt(seg, 0) = "[" /\ HasChar(seg, ":"))

MaxSegmentTokens == 3

SegmentVocab == {"a", "a,b", "+b", "-c", "d!=1", "[1:3]", "e[1:3]", "[x]", ""}

InitSegments ==
    InitOn(TokenPaths({"x/d.db;t;"}, SegmentVocab, {"/"}, MaxSegmentTokens), {""})

SpecSegments == InitSegments /\ [][Next]_vars

\* the segment holds ',' or "!=", begins with '+' or '-', or is a bracket
\* that opens the segment and holds the ':' of a slice
ShowsIndicator(seg) ==
    \/ HasChar(seg, ",")
    \/ HasPair(seg, "!", "=")
    \/ (Len(seg) > 0 /\ CharAt(seg, 0) \in {"+", "-"})
    \/ (Len(seg) > 0 /\ CharAt(seg, 0) = "[" /\ HasChar(seg, ":"))

\* the segments C28 names: none for the empty column path, the segments from
\* the first one that shows an indicator, or the final segment alone
ExpectedSegments(columnPath) ==
    LET segs  == Split(columnPath, "/")
        shown == {i \in 1..Len(segs) : ShowsIndicator(segs[i])}
        from  == IF shown = {} THEN Len(segs)
                 ELSE CHOOSE i \in shown : \A j \in shown : i <= j
    IN  IF columnPath = "" THEN <<>>
        ELSE [i \in 1..(Len(segs) - from + 1) |-> segs[from + i - 1]]

\* the select list read from the given segments
SelectOver(segments) ==
    IF Len(segments) = 0 \/ Len(SelectSegments(segments)) = 0 THEN <<"*">>
    ELSE SelectSegments(segments)

\* C28: the select list and the path filters are read from the segments of
\* the column path from the first one that shows an indicator through the
\* end, from the final segment alone when none shows one, and from no
\* segment when the column path is empty.
C28_SegmentsSuffix ==
    [][/\ pc = "select" =>
              b'.Select = NormalizedSelect(SelectOver(ExpectedSegments(b.ColumnPath)), b.Table)
       /\ pc = "where" =>
              b'.Where = CombinedWhere(parseWhere(query),
                                       Join(ConditionSegments(ExpectedSegments(b.ColumnPath)),
                                            " AND "))]_vars

\* a/d!=1/a,b: the leading segment a gives no column, the filter and the two
\* columns behind it are read
C28_Witness ==
    /\ pc = "done"
    /\ b.ColumnPath = "a/d!=1/a,b"
    /\ b.Select = <<"a", "b">>
    /\ b.Where = "d != 1"

\* C29: in the returned record no element of Select begins with '+' or '-',
\* and when OrderBy was taken from the path, Select does not hold the token
\* it was taken from (the sort prefix followed by the OrderBy column).
C29_SortTokensNotSelected ==
    Returned =>
        \A i \in 1..Len(b.Select) :
            /\ ~HasPrefix(b.Select[i], ASC)
            /\ ~HasPrefix(b.Select[i], DESC)
            /\ (QueryGet(query, "orderby") = "" /\ b.OrderBy # "") =>
                   b.Select[i] # (IF b.SortDirection = "ASC" THEN ASC ELSE DESC) \o b.OrderBy

\* C30: a composed statement that holds an OFFSET clause holds a LIMIT clause.
C30_OffsetImpliesLimit ==
    pc = "composed" => (Contains(sql, " OFFSET ") => Contains(sql, " LIMIT "))

====
